---- MODULE Spec2Model ----
(***************************************************************************)
(* Model of the LLM orchestration core of quiz-me-app:                     *)
(*   backend/app/providers/base.py     request/result/error types          *)
(*   backend/app/providers/clients.py  provider clients                    *)
(*   backend/app/providers/manager.py  LLMManager (attempt/retry/failover) *)
(*   backend/app/telemetry.py          LLMTelemetryStore                   *)
(***************************************************************************)
EXTENDS Integers, Sequences, FiniteSets, TLC

(***************************************************************************)
(* Bounds of the model.                                                    *)
(***************************************************************************)
MaxRetries == 1
MaxOrderLen == 2
MaxEvents == 3

(***************************************************************************)
(* config.py                                                               *)
(***************************************************************************)
ALLOWED_PROVIDERS == {"openai", "perplexity", "gemini"}

Categories == {"timeout", "rate_limit", "invalid_json", "server_error"}

Tasks == {"quiz_generation", "short_grading"}

Operations == {"complete_text", "complete_json_model", "complete_json_dict"}

\* Values of Settings.llm_failover_on the model explores.
FailoverPolicies ==
    { {}, {"all"}, {"timeout"}, {"server_error"}, {"invalid_json"} }

\* Values of Settings.llm_max_retries_per_provider the model explores.
RetrySettings == (-1) .. MaxRetries

\* Values of Settings.llm_provider_order the model explores: from_env keeps the
\* allowed names among LLM_PROVIDER_1..3 and never yields an empty list.  The
\* model takes the orders that name each provider at most once.
ProviderOrders ==
    { s \in UNION { [1..k -> ALLOWED_PROVIDERS] : k \in 1..MaxOrderLen } :
          \A i, j \in DOMAIN s : i # j => s[i] # s[j] }

(***************************************************************************)
(* base.py                                                                 *)
(***************************************************************************)
\* The attributes of the dataclass LLMCallInput.
LLMCallInputFields ==
    {"task", "model", "system_prompt", "user_prompt", "json_schema"}

\* Outcomes of a Python call: a value, a classified LLMError, a pydantic
\* ValidationError, a json.JSONDecodeError, or any other exception.
Ok(text) == [kind |-> "ok", category |-> "success", text |-> text]
LLMError(category) == [kind |-> "llm_error", category |-> category, text |-> "none"]
ValidationError == [kind |-> "validation_error", category |-> "invalid_json", text |-> "none"]
JSONDecodeError == [kind |-> "json_decode_error", category |-> "invalid_json", text |-> "none"]
OtherException == [kind |-> "exception", category |-> "server_error", text |-> "none"]

\* LLMCallInput(**kwargs): the dataclass constructor raises TypeError for a
\* keyword that is not one of its fields.
NewLLMCallInput(kwargs, json_schema) ==
    IF kwargs \subseteq LLMCallInputFields
    THEN [kind |-> "ok", kwargs |-> kwargs, json_schema |-> json_schema]
    ELSE [kind |-> "exception", kwargs |-> kwargs, json_schema |-> json_schema]

\* Reading request.<field>: AttributeError when the dataclass has no such field.
HasAttr(field) == field \in LLMCallInputFields

(***************************************************************************)
(* What a provider backend answers to one HTTP request.  The completion    *)
(* text is kept by what the manager can do with it:                        *)
(*   valid      a JSON object matching the target model                    *)
(*   mismatch   a JSON object that fails validation against the model      *)
(*   malformed  braces present, but not parseable as JSON                  *)
(*   no_object  no JSON object to extract                                  *)
(***************************************************************************)
TextKinds == {"valid", "mismatch", "malformed", "no_object"}

Response(net, status, body) == [net |-> net, status |-> status, body |-> body]

NoAnswer == Response("none", 0, "none")

Responses ==
    { Response("timeout", 0, "none"), Response("error", 0, "none"),
      Response("ok", 429, "other"), Response("ok", 500, "other"),
      Response("ok", 400, "other"), Response("ok", 400, "schema_rejection"),
      Response("ok", 200, "empty"), Response("ok", 200, "blank"),
      Response("ok", 200, "not_json") }
    \cup { Response("ok", 200, t) : t \in TextKinds }

\* The answers the orchestration specification draws from: one per way the
\* manager can see a call end.
ManagerResponses ==
    { Response("timeout", 0, "none"), Response("ok", 429, "other"),
      Response("ok", 500, "other"), Response("ok", 400, "other") }
    \cup { Response("ok", 200, t) : t \in TextKinds }

IsOkText(resp) == resp.net = "ok" /\ resp.status = 200 /\ resp.body \in TextKinds

\* The answers to a repair request the orchestration specification draws
\* from: a failure, and a text of each kind the manager tells apart.
RepairResponses ==
    { Response("timeout", 0, "none"), Response("ok", 200, "valid"),
      Response("ok", 200, "malformed"), Response("ok", 200, "no_object") }

\* The answers to a repair request that can follow the answer resp: a repair
\* request is only ever sent about a completion text that is not valid.
RepairResponsesAfter(resp) ==
    IF IsOkText(resp) /\ resp.body # "valid" THEN RepairResponses ELSE {NoAnswer}

(***************************************************************************)
(* clients.py                                                              *)
(***************************************************************************)
ClassifyResponseRateLimitFor4xx(resp) ==
    IF resp.net = "timeout" THEN LLMError("timeout")
    ELSE IF resp.net = "error" THEN LLMError("server_error")
    ELSE IF resp.status >= 500 THEN LLMError("server_error")
    ELSE IF resp.status >= 400 THEN LLMError("rate_limit")
    ELSE IF resp.body = "not_json" THEN OtherException
    ELSE IF resp.body \notin TextKinds THEN LLMError("server_error")
    ELSE Ok(resp.body)

\* The status/body classification shared by both clients (lines 254-278 and
\* 342-366).
ClassifyResponse(resp) ==
    IF resp.net = "timeout" THEN LLMError("timeout")
    ELSE IF resp.net = "error" THEN LLMError("server_error")
    ELSE IF resp.status = 429 THEN LLMError("rate_limit")
    ELSE IF resp.status >= 500 THEN LLMError("server_error")
    ELSE IF resp.status >= 400 THEN LLMError("server_error")
    ELSE IF resp.body = "not_json" THEN OtherException
    ELSE IF resp.body \notin TextKinds THEN LLMError("server_error")
    ELSE Ok(resp.body)

\* What generate_text ends with: out, the result or the exception; sent, for
\* each HTTP request posted, whether its payload carries a response schema;
\* http, the number of requests posted.
Generated(out, sent) == [out |-> out, sent |-> sent, http |-> Len(sent)]

\* The capability flag the manager constructs each chat-completions client
\* with.
supports_json_schema_response(name) == name = "openai"

\* OpenAICompatibleProvider.generate_text.  request.max_output_tokens is read
\* before the request is posted.
OpenAIGenerateText(name, configured, request, resp) ==
    IF ~configured THEN Generated(LLMError("server_error"), <<>>)
    ELSE IF ~HasAttr("max_output_tokens") THEN Generated(OtherException, <<>>)
    ELSE Generated(ClassifyResponse(resp),
                   << request.json_schema /\ supports_json_schema_response(name) >>)

looks_like_gemini_schema_error(resp) == resp.body = "schema_rejection"

GeminiGenerateTextRetryAny400(configured, request, resp, resp2) ==
    IF ~configured THEN Generated(LLMError("server_error"), <<>>)
    ELSE IF resp.net # "ok"
    THEN Generated(ClassifyResponse(resp), << request.json_schema >>)
    ELSE IF resp.status = 400
         THEN Generated(ClassifyResponse(resp2), << request.json_schema, FALSE >>)
         ELSE Generated(ClassifyResponse(resp), << request.json_schema >>)

\* GeminiProvider.generate_text; resp2 answers the request repeated without
\* responseSchema.
GeminiGenerateText(configured, request, resp, resp2) ==
    IF ~configured THEN Generated(LLMError("server_error"), <<>>)
    ELSE IF resp.net # "ok"
    THEN Generated(ClassifyResponse(resp), << request.json_schema >>)
    ELSE IF /\ request.json_schema
            /\ resp.status = 400
            /\ looks_like_gemini_schema_error(resp)
         THEN Generated(ClassifyResponse(resp2), << request.json_schema, FALSE >>)
         ELSE Generated(ClassifyResponse(resp), << request.json_schema >>)

(***************************************************************************)
(* telemetry.py: the aggregate snapshot.  A metric bucket counts attempts, *)
(* success and error (cost_usd, a float sum, is left out); a period        *)
(* snapshot holds the totals and the buckets by provider, model, task,     *)
(* category and (provider, task); the counters file holds one period       *)
(* snapshot for all time plus one per month.                               *)
(***************************************************************************)
empty_metric_bucket == [attempts |-> 0, success |-> 0, error |-> 0]

EmptyMap == [k \in {} |-> empty_metric_bucket]

empty_period_snapshot ==
    [totals |-> empty_metric_bucket, providers |-> EmptyMap, models |-> EmptyMap,
     tasks |-> EmptyMap, categories |-> EmptyMap, provider_task |-> EmptyMap]

empty_counter_snapshot ==
    [totals |-> empty_metric_bucket, providers |-> EmptyMap, models |-> EmptyMap,
     tasks |-> EmptyMap, categories |-> EmptyMap, provider_task |-> EmptyMap,
     monthly |-> EmptyMap]

\* container[key] = value, adding the key when it is new.
Put(container, key, value) ==
    [k \in DOMAIN container \cup {key} |->
        IF k = key THEN value ELSE container[k]]

\* container.setdefault(key, default)
SetDefault(container, key, default) ==
    IF key \in DOMAIN container THEN container[key] ELSE default

\* _metric_bucket: the bucket under key, created with zero counters if absent.
metric_bucket(container, key) == SetDefault(container, key, empty_metric_bucket)

\* _inc
inc(bucket, key) == [bucket EXCEPT ![key] = @ + 1]

bump_metric_attempts_only(bucket, outcome) == inc(bucket, "attempts")

\* _bump_metric
bump_metric(bucket, outcome) == inc(inc(bucket, "attempts"), outcome)

\* event["category"] or "unknown"
CategoryKey(category) == IF category = "" THEN "unknown" ELSE category

\* _bump_snapshot without the bucket of the category.
bump_snapshot_without_category(snapshot, event) ==
    LET by_provider == SetDefault(snapshot.provider_task, event.provider, EmptyMap)
    IN  [snapshot EXCEPT
           !.totals = bump_metric(@, event.outcome),
           !.providers = Put(@, event.provider,
               bump_metric(metric_bucket(@, event.provider), event.outcome)),
           !.models = Put(@, event.model,
               bump_metric(metric_bucket(@, event.model), event.outcome)),
           !.tasks = Put(@, event.task,
               bump_metric(metric_bucket(@, event.task), event.outcome)),
           !.provider_task = Put(@, event.provider,
               Put(by_provider, event.task,
                   bump_metric(metric_bucket(by_provider, event.task),
                               event.outcome)))]

\* _bump_snapshot
bump_snapshot(snapshot, event) ==
    LET by_provider == SetDefault(snapshot.provider_task, event.provider, EmptyMap)
    IN  [snapshot EXCEPT
           !.totals = bump_metric(@, event.outcome),
           !.providers = Put(@, event.provider,
               bump_metric(metric_bucket(@, event.provider), event.outcome)),
           !.models = Put(@, event.model,
               bump_metric(metric_bucket(@, event.model), event.outcome)),
           !.tasks = Put(@, event.task,
               bump_metric(metric_bucket(@, event.task), event.outcome)),
           !.categories = Put(@, CategoryKey(event.category),
               bump_metric(metric_bucket(@, CategoryKey(event.category)),
                           event.outcome)),
           !.provider_task = Put(@, event.provider,
               Put(by_provider, event.task,
                   bump_metric(metric_bucket(by_provider, event.task),
                               event.outcome)))]

\* record_attempt, lines 182-187: the all-time scope and the event's month.
BumpCounters(counters, event) ==
    LET bumped == bump_snapshot(counters, event)
        month_snapshot == SetDefault(bumped.monthly, event.month,
                                     empty_period_snapshot)
    IN  [bumped EXCEPT
           !.monthly = Put(@, event.month, bump_snapshot(month_snapshot, event))]

\* A file: missing, corrupt (not parseable), or holding data.
MissingFile == [state |-> "missing", data |-> empty_counter_snapshot]
FileWith(data) == [state |-> "ok", data |-> data]

\* Files that do not hold a snapshot:
\*   partial      the text of a write cut short (a prefix of a JSON text)
\*   unparseable  text that is not JSON
\*   undecodable  bytes that are not text in the file encoding
\*   wrong_shape  JSON that is not a mapping of buckets, such as []
PartialFile == [state |-> "partial", data |-> empty_counter_snapshot]
UnparseableFile == [state |-> "unparseable", data |-> empty_counter_snapshot]
UndecodableFile == [state |-> "undecodable", data |-> empty_counter_snapshot]
WrongShapeFile == [state |-> "wrong_shape", data |-> empty_counter_snapshot]

\* Lines 182-183 raise when read_text cannot decode the file
\* (UnicodeDecodeError is not among the exceptions _read_counters catches)
\* and when json.loads returns a value _bump_snapshot cannot index.
read_and_bump_raises(file) == file.state \in {"undecodable", "wrong_shape"}

\* _read_counters: a missing file (FileNotFoundError) and text that is not
\* JSON (JSONDecodeError) read as an empty snapshot.
read_counters(file) ==
    IF file.state = "ok" THEN file.data ELSE empty_counter_snapshot

(***************************************************************************)
(* The record_attempt calls the telemetry specification draws from.        *)
(***************************************************************************)
Threads == {"t1", "t2"}

Months == <<"2026-11", "2026-12">>

\* Settings.get_task_model without per-provider overrides (config.py 151-157).
get_task_model(provider, t) ==
    IF t = "topic_guardrail" THEN "gpt-5-nano" ELSE "gpt-5-mini"

TelemetryInputs ==
    { [provider |-> p, task |-> t, model |-> get_task_model(p, t),
       outcome |-> o, category |-> IF o = "success" THEN "success" ELSE "timeout"] :
          p \in {"openai", "gemini"},
          t \in {"quiz_generation", "topic_guardrail"},
          o \in {"success", "error"} }

NoEvent == [provider |-> "none", task |-> "none", model |-> "none",
            outcome |-> "none", category |-> "none", month |-> "none"]

(***************************************************************************)
(* State.                                                                  *)
(*   Settings, fixed at construction: order, configured (the providers     *)
(*   with an API key), max_retries, failover_on, telemetry_enabled.        *)
(*   One orchestration call: op, task, pc, pidx (position in the provider  *)
(*   loop), attempt_index, errors, result; attempts_made counts the        *)
(*   iterations of the attempt loops begun so far.                         *)
(*   backendAnswer / repairAnswer: what the current provider's backend     *)
(*   answers to the attempt's request and to its repair request.           *)
(*   trace: the generate_text calls made and the telemetry events          *)
(*   recorded, in program order.                                           *)
(*   prompts: the user prompt of each iteration of the attempt loops, in   *)
(*   program order.                                                        *)
(***************************************************************************)
VARIABLES order, configured, max_retries, failover_on, telemetry_enabled,
          op, task, pc, pidx, attempt_index, attempts_made, errors, result,
          backendAnswer, repairAnswer, trace, prompts

(***************************************************************************)
(* State of the LLMTelemetryStore and of the threads calling               *)
(* record_attempt on it.                                                   *)
(*   counters_file, tmp_file: llm_counters.json and llm_counters.json.tmp  *)
(*   events_lines: the number of lines of llm_calls.jsonl (the log is only *)
(*   ever appended to, never read)                                         *)
(*   lock: the thread holding self._lock, or "free"                        *)
(*   tpc, tevent, tlocal: per thread, its position in record_attempt, the  *)
(*   event it records and the counters it has read and bumped              *)
(*   started, completed: record_attempt calls begun / returned             *)
(*   clock: the current month, an index into Months                        *)
(***************************************************************************)
VARIABLES counters_file, tmp_file, events_lines, lock, tpc, tevent, tlocal,
          started, completed, clock

store == <<counters_file, tmp_file, events_lines, lock, tpc, tevent, tlocal,
           started, completed, clock>>

(***************************************************************************)
(* Arguments and results of the pure functions.                            *)
(*   input_text, extraction: the argument of _extract_json_text and what   *)
(*   the call ended with                                                   *)
(*   schema, translated: the argument of a schema translator and its       *)
(*   result                                                                *)
(*   written: who holds the objects the translator assigned into           *)
(*   deepest: the greatest depth argument of a convert call of the         *)
(*   translation                                                           *)
(***************************************************************************)
VARIABLES input_text, extraction, schema, translated, written, deepest

translation == <<schema, translated, written, deepest>>

(***************************************************************************)
(* One generate_text call on a provider client.                            *)
(*   exchange: the client, whether it has an API key, whether the request  *)
(*   carries a schema, and what the backend answers to the first and to    *)
(*   the second HTTP request                                               *)
(*   generated: what generate_text ended with and the number of HTTP       *)
(*   requests it sent                                                      *)
(***************************************************************************)
VARIABLES exchange, generated

client == <<exchange, generated>>

(***************************************************************************)
(* One session of the SessionStore.                                        *)
(*   answers: the SessionAnswer of each question of the session's quiz     *)
(*   submitted, response: the question id in the payload of the last       *)
(*   submit_answer call, and what the call ended with                      *)
(*   incorrect_accepted: per question, the submissions accepted so far     *)
(*   that were graded incorrect                                            *)
(*   spc, sreq: for each thread inside submit_answer, the line it is at    *)
(*   and its local variables                                               *)
(*   state: what the last get_state call ended with                        *)
(*   sensitive_tokens, given_feedback: the sensitive tokens of a question  *)
(*   and the feedback of an incorrect submission to it                     *)
(***************************************************************************)
VARIABLES answers, submitted, response, incorrect_accepted, spc, sreq, state,
          sensitive_tokens, given_feedback

session == <<answers, submitted, response, incorrect_accepted, spc, sreq,
             state, sensitive_tokens, given_feedback>>

(***************************************************************************)
(* One validation of a QuizModel.                                          *)
(*   questions: the questions of the quiz handed to the model, by id and   *)
(*   type                                                                  *)
(*   validation: what the validation ended with                            *)
(***************************************************************************)
VARIABLES questions, validation

quiz == <<questions, validation>>

pure == <<input_text, extraction, translation, client, session, quiz>>

settings == <<order, configured, max_retries, failover_on, telemetry_enabled>>

call == <<op, task, pc, pidx, attempt_index, attempts_made, errors, result,
          backendAnswer, repairAnswer, trace, prompts>>

vars == <<settings, call, store, pure>>

\* message: the provider entries an aggregate error message embeds.
NoResult == [status |-> "none", provider |-> "none", category |-> "none",
             raw |-> FALSE, text |-> "none", message |-> <<>>]

\* A value returned to the caller together with the provider that produced it.
Returned(provider, text) ==
    [status |-> "ok", provider |-> provider, category |-> "success",
     raw |-> FALSE, text |-> text, message |-> <<>>]

\* An LLMError of the given category reaching the caller.
Raised(category) ==
    [status |-> "error", provider |-> "none", category |-> category,
     raw |-> FALSE, text |-> "none", message |-> <<>>]

\* The aggregate LLMError raised after the provider loop: "All providers
\* failed ... " + " | ".join(errors).
RaisedAggregate(category, errs) ==
    [status |-> "error", provider |-> "none", category |-> category,
     raw |-> FALSE, text |-> "none", message |-> errs]

\* An exception that is not an LLMError reaching the caller.
RaisedRaw ==
    [status |-> "error", provider |-> "none", category |-> "none",
     raw |-> TRUE, text |-> "none", message |-> <<>>]

(***************************************************************************)
(* manager.py: helpers                                                     *)
(***************************************************************************)
is_configured_always(provider) == TRUE

\* bool(self.api_key)
is_configured(provider) == provider \in configured

should_failover_ignoring_policy(category) == TRUE

should_failover(category) ==
    "all" \in failover_on \/ category \in failover_on

any_provider_in_order == Len(order) > 0

any_provider_configured ==
    \E i \in DOMAIN order : is_configured(order[i])

extra_invalid_json_retry_limit_any_task(provider, t) ==
    IF provider = "perplexity" THEN 1 ELSE 0

extra_invalid_json_retry_limit(provider, t) ==
    IF provider = "perplexity" /\ t = "quiz_generation" THEN 1 ELSE 0

RepairTask(t) ==
    IF t = "quiz_generation" THEN "quiz_generation_repair"
    ELSE "short_grading_repair"

\* range(attempts + 1) with attempts = max(0, llm_max_retries_per_provider).
TextAttemptsOffByOne == (IF max_retries > 0 THEN max_retries ELSE 0)

TextAttempts == (IF max_retries > 0 THEN max_retries ELSE 0) + 1

\* total_attempts of complete_json_model.
TotalAttempts(provider, t) ==
    TextAttempts + extra_invalid_json_retry_limit(provider, t)

\* The user_prompt argument of the orchestration call.
UserPrompt == "user_prompt"

\* _prompt_with_truncation_guard (82-88)
prompt_with_truncation_guard(user_prompt) ==
    user_prompt \o " CRITICAL: Return one COMPLETE JSON object"

\* prompt_for_attempt of complete_json_model (285-287)
prompt_for_attempt_guarding_last(index) ==
    IF index + 1 >= TextAttempts
    THEN prompt_with_truncation_guard(UserPrompt) ELSE UserPrompt

prompt_for_attempt(index) ==
    IF index >= TextAttempts
    THEN prompt_with_truncation_guard(UserPrompt) ELSE UserPrompt

\* What prompts keeps of one iteration of an attempt loop: attempt is the
\* attempt_number of the code, attempt_index + 1.
PromptEntry(provider, index, user_prompt) ==
    [provider |-> provider, attempt |-> index + 1, user_prompt |-> user_prompt]

\* provider.generate_text(request) for the provider registered under the name.
GenerateText(provider, request, resp) ==
    IF provider = "gemini"
    THEN GeminiGenerateText(is_configured(provider), request, resp, resp).out
    ELSE OpenAIGenerateText(provider, is_configured(provider), request, resp).out

\* _extract_json_text, on the kinds of text.
extract_json_text(text) ==
    IF text = "no_object" THEN LLMError("invalid_json") ELSE Ok(text)

\* model_type.model_validate_json: pydantic reports unparseable JSON and a
\* shape mismatch alike as ValidationError.
model_validate_json(text) ==
    IF text = "valid" THEN Ok(text) ELSE ValidationError

\* json.loads
json_loads(text) ==
    IF text = "malformed" THEN JSONDecodeError ELSE Ok(text)

(***************************************************************************)
(* Trace entries.                                                          *)
(***************************************************************************)
CallEntry(provider, t, out) ==
    [kind |-> "call", operation |-> "generate_text", task |-> t,
     provider |-> provider, attempt |-> 0,
     outcome |-> out.kind, category |-> out.category, text |-> out.text]

Event(operation, t, provider, attempt, outcome, category) ==
    [kind |-> "event", operation |-> operation, task |-> t,
     provider |-> provider, attempt |-> attempt,
     outcome |-> outcome, category |-> category, text |-> "none"]

\* telemetry.measure_and_record -> record_attempt: a disabled store records
\* nothing.
RecordDropped(event) == <<>>

Record(event) == IF telemetry_enabled THEN <<event>> ELSE <<>>

(***************************************************************************)
(* manager.py: _repair_json.  The result is the outcome of the call (the   *)
(* repaired text, or the exception re-raised) and what it adds to trace.   *)
(***************************************************************************)
RepairJson(provider, t, rans) ==
    LET request == NewLLMCallInput(
                       {"task", "model", "system_prompt", "user_prompt",
                        "max_output_tokens"}, FALSE)
        repaired == GenerateText(provider, request, rans)
    IN  IF request.kind # "ok"
        THEN [out |-> OtherException,
              trace |-> Record(Event("repair_json", RepairTask(t), provider, 1,
                                     "error", "server_error"))]
        ELSE [out |-> repaired,
              trace |-> <<CallEntry(provider, RepairTask(t), repaired)>> \o
                        Record(Event("repair_json", RepairTask(t), provider, 1,
                                     IF repaired.kind = "ok" THEN "success" ELSE "error",
                                     repaired.category))]

(***************************************************************************)
(* manager.py: the body of one attempt of complete_text (lines 200-222)    *)
(* and of complete_json_model (lines 283-361), up to the point where the   *)
(* attempt's own telemetry event is recorded: out is the value or the      *)
(* exception the try block ends with, pre the trace entries made so far.   *)
(***************************************************************************)
TextAttemptBody(provider, t, ans) ==
    LET request == NewLLMCallInput(
                       {"task", "model", "system_prompt", "user_prompt"}, FALSE)
        output == GenerateText(provider, request, ans)
    IN  IF request.kind # "ok"
        THEN [out |-> OtherException, pre |-> <<>>]
        ELSE [out |-> output, pre |-> <<CallEntry(provider, t, output)>>]

JsonModelAttemptBody(provider, t, ans, rans) ==
    LET request == NewLLMCallInput(
                       {"task", "model", "system_prompt", "user_prompt",
                        "json_schema", "max_output_tokens"}, TRUE)
        raw == GenerateText(provider, request, ans)
        called == <<CallEntry(provider, t, raw)>>
        extracted == extract_json_text(raw.text)
        parsed == IF extracted.kind = "ok"
                  THEN model_validate_json(extracted.text) ELSE extracted
        \* both except clauses of the inner try (lines 316-361)
        repair == RepairJson(provider, t, rans)
        extracted2 == extract_json_text(repair.out.text)
        parsed2 == IF extracted2.kind = "ok"
                   THEN model_validate_json(extracted2.text) ELSE extracted2
    IN  IF request.kind # "ok" THEN [out |-> OtherException, pre |-> <<>>]
        ELSE IF raw.kind # "ok" THEN [out |-> raw, pre |-> called]
        ELSE IF parsed.kind = "ok" THEN [out |-> parsed, pre |-> called]
        ELSE IF repair.out.kind # "ok"
             THEN [out |-> repair.out, pre |-> called \o repair.trace]
             ELSE [out |-> parsed2, pre |-> called \o repair.trace]

(***************************************************************************)
(* manager.py: what the except clauses of an attempt decide.               *)
(*   category  the category of the attempt's telemetry event               *)
(*   logged    whether errors gets an entry                                *)
(*   verdict   "return", "raise" (the LLMError reaching the caller has     *)
(*             this category) or "continue" (next iteration of the loop)   *)
(***************************************************************************)
TextHandlerUnlogged(out) ==
    IF out.kind = "ok"
    THEN [category |-> "success", logged |-> FALSE, verdict |-> "return"]
    ELSE [category |-> out.category, logged |-> FALSE,
          verdict |-> IF should_failover(out.category) THEN "continue" ELSE "raise"]

TextHandlerNoRaise(out) ==
    IF out.kind = "ok"
    THEN [category |-> "success", logged |-> FALSE, verdict |-> "return"]
    ELSE [category |-> out.category, logged |-> TRUE, verdict |-> "continue"]

TextHandlerNoReturn(out) ==
    [category |-> out.category, logged |-> out.kind # "ok",
     verdict |-> IF out.kind = "ok" \/ should_failover(out.category)
                 THEN "continue" ELSE "raise"]

TextHandlerUnclassified(out) ==
    IF out.kind = "ok"
    THEN [category |-> "success", logged |-> FALSE, verdict |-> "return"]
    ELSE [category |-> IF out.kind = "exception" THEN "unknown" ELSE out.category,
          logged |-> TRUE,
          verdict |-> IF should_failover(out.category) THEN "continue" ELSE "raise"]

TextHandler(out) ==
    IF out.kind = "ok"
    THEN [category |-> "success", logged |-> FALSE, verdict |-> "return"]
    ELSE \* except LLMError (223-237) and except Exception (238-255)
         [category |-> out.category, logged |-> TRUE,
          verdict |-> IF should_failover(out.category) THEN "continue" ELSE "raise"]

JsonModelHandler(out, index, total) ==
    IF out.kind = "ok"
    THEN [category |-> "success", logged |-> FALSE, verdict |-> "return"]
    ELSE IF out.kind \in {"llm_error", "validation_error"}
              /\ out.category = "invalid_json" /\ index < total - 1
    THEN \* is_retryable_invalid_json (374-378), and 394-395
         [category |-> "invalid_json", logged |-> FALSE, verdict |-> "continue"]
    ELSE [category |-> out.category, logged |-> TRUE,
          verdict |-> IF should_failover(out.category) THEN "continue" ELSE "raise"]

ErrorEntry(provider, what) == [provider |-> provider, what |-> what]

(***************************************************************************)
(* manager.py: _extract_json_text on texts.  A text is a sequence of       *)
(* tokens: "{" and "}", "F" for a fence of three backticks, "J" for the    *)
(* tag json, " " for a whitespace character, "x" for any other character.  *)
(***************************************************************************)
MaxTextLen == 6

Tokens == {"{", "}", "F", "J", " ", "x"}

Texts == UNION { [1..n -> Tokens] : n \in 0..MaxTextLen }

\* The position of the first character at or after i that is not whitespace
\* (Len(s) + 1 if there is none): what \s* consumes.
SkipSpaces(s, i) ==
    CHOOSE j \in i..(Len(s) + 1) :
        /\ \A k \in i..(j - 1) : s[k] = " "
        /\ (j <= Len(s) => s[j] # " ")

\* str.strip()
strip(s) ==
    LET lo == SkipSpaces(s, 1)
        hi == CHOOSE j \in 0..Len(s) :
                  /\ \A k \in (j + 1)..Len(s) : s[k] = " "
                  /\ (j >= 1 => s[j] # " ")
    IN  IF lo > hi THEN <<>> ELSE SubSeq(s, lo, hi)

\* str.find / str.rfind of one character; 0 stands for Python's -1.
find(s, c) ==
    IF \E i \in DOMAIN s : s[i] = c
    THEN CHOOSE i \in DOMAIN s : s[i] = c /\ \A k \in 1..(i - 1) : s[k] # c
    ELSE 0

rfind(s, c) ==
    IF \E i \in DOMAIN s : s[i] = c
    THEN CHOOSE i \in DOMAIN s : s[i] = c /\ \A k \in (i + 1)..Len(s) : s[k] # c
    ELSE 0

\* The pattern ```(?:json)?\s*(\{.*\})\s*``` tried at position i: where the
\* group starts, and the positions it can end (a "}" followed by optional
\* whitespace and a fence).
GroupStart(s, i) ==
    SkipSpaces(s, IF i + 1 <= Len(s) /\ s[i + 1] = "J" THEN i + 2 ELSE i + 1)

GroupEnds(s, i) ==
    { e \in (GroupStart(s, i) + 1)..Len(s) :
          /\ s[e] = "}"
          /\ SkipSpaces(s, e + 1) <= Len(s)
          /\ s[SkipSpaces(s, e + 1)] = "F" }

MatchesAt(s, i) ==
    /\ s[i] = "F"
    /\ GroupStart(s, i) <= Len(s)
    /\ s[GroupStart(s, i)] = "{"
    /\ GroupEnds(s, i) # {}

NoMatch == [found |-> FALSE, group |-> <<>>]

\* re.search(..., flags=re.DOTALL): the leftmost match; .* is greedy, so the
\* group ends at the last position it can.
re_search(s) ==
    IF \E i \in DOMAIN s : MatchesAt(s, i)
    THEN LET i == CHOOSE i \in DOMAIN s :
                      MatchesAt(s, i) /\ \A k \in 1..(i - 1) : ~MatchesAt(s, k)
             e == CHOOSE e \in GroupEnds(s, i) : \A f \in GroupEnds(s, i) : f <= e
         IN  [found |-> TRUE, group |-> SubSeq(s, GroupStart(s, i), e)]
    ELSE NoMatch

Extracted(s) == [kind |-> "ok", category |-> "success", text |-> s]

ExtractionError == [kind |-> "llm_error", category |-> "invalid_json", text |-> <<>>]

NoExtraction == [kind |-> "none", category |-> "none", text |-> <<>>]

\* _extract_json_text (manager.py 68-80)
ExtractJsonText(s) ==
    LET stripped == strip(s)
        match == re_search(stripped)
        first == find(stripped, "{")
        last == rfind(stripped, "}")
    IN  IF /\ Len(stripped) > 0
           /\ stripped[1] = "{"
           /\ stripped[Len(stripped)] = "}"
        THEN Extracted(stripped)
        ELSE IF match.found THEN Extracted(match.group)
        ELSE IF first # 0 /\ last # 0 /\ first < last
             THEN Extracted(SubSeq(stripped, first, last))
        ELSE ExtractionError

(***************************************************************************)
(* JSON values, as the schema translators see them: None, a string, a      *)
(* boolean, a list or a dict.  A dict's fields are a function from keys to *)
(* values; its keys are listed in the order of PropertyOrder.              *)
(***************************************************************************)
JNoFields == [k \in {} |-> ""]

JNone == [kind |-> "none", str |-> "", bool |-> FALSE, items |-> <<>>,
          fields |-> JNoFields]
JStr(s) == [kind |-> "str", str |-> s, bool |-> FALSE, items |-> <<>>,
            fields |-> JNoFields]
JBool(b) == [kind |-> "bool", str |-> "", bool |-> b, items |-> <<>>,
             fields |-> JNoFields]
JList(items) == [kind |-> "list", str |-> "", bool |-> FALSE, items |-> items,
                 fields |-> JNoFields]
JDict(fields) == [kind |-> "dict", str |-> "", bool |-> FALSE, items |-> <<>>,
                  fields |-> fields]

\* dict.get(key): None when the key is absent.
Get(fields, key) == IF key \in DOMAIN fields THEN fields[key] ELSE JNone

\* The property names the model's schemas use, in the order the dicts hold them.
PropertyOrder == <<"a", "b">>

\* list(d.keys())
Keys(fields) ==
    LET in_dict(k) == k \in DOMAIN fields
    IN  SelectSeq(PropertyOrder, in_dict)

JStrs(keys) == [i \in DOMAIN keys |-> JStr(keys[i])]

(***************************************************************************)
(* clients.py: _to_openai_strict_schema                                    *)
(***************************************************************************)
RECURSIVE normalize(_)
normalize(node) ==
    IF node.kind = "dict"
    THEN LET normalized == [k \in DOMAIN node.fields |-> normalize(node.fields[k])]
             properties == Get(normalized, "properties")
             \* normalized.setdefault("additionalProperties", False)
             closed == IF "additionalProperties" \in DOMAIN normalized
                       THEN normalized
                       ELSE Put(normalized, "additionalProperties", JBool(FALSE))
             required == Get(closed, "required")
             not_required(k) == \A i \in DOMAIN required.items :
                                    required.items[i] # JStr(k)
             missing == SelectSeq(Keys(properties.fields), not_required)
         IN  IF Get(normalized, "type") = JStr("object") /\ properties.kind = "dict"
             THEN IF required.kind = "list"
                  THEN IF missing # <<>>
                       THEN JDict(Put(closed, "required",
                                      JList(required.items \o JStrs(missing))))
                       ELSE JDict(closed)
                  ELSE JDict(Put(closed, "required",
                                 JList(JStrs(Keys(properties.fields)))))
             ELSE JDict(normalized)
    ELSE IF node.kind = "list"
    THEN JList([i \in DOMAIN node.items |-> normalize(node.items[i])])
    ELSE node

to_openai_strict_schema(s) ==
    LET normalized_root == normalize(s)
    IN  IF normalized_root.kind = "dict" THEN normalized_root
        ELSE JDict("type" :> JStr("object") @@
                   "additionalProperties" :> JBool(FALSE))

(***************************************************************************)
(* The schemas the translators are applied to: leaves, and object nodes    *)
(* with one or two properties, nested up to MaxSchemaDepth, carrying any   *)
(* of the additionalProperties and required values below.                  *)
(***************************************************************************)
MaxSchemaDepth == 2

StringSchema == JDict("type" :> JStr("string"))

\* An object without a properties map.
MapSchema == JDict("type" :> JStr("object"))

AdditionalOptions == {JNone, JBool(TRUE), JBool(FALSE)}

RequiredOptions ==
    { JNone, JList(<<>>), JList(<<JStr("a")>>), JList(<<JStr("a"), JStr("a")>>),
      JList(<<JStr("b"), JStr("a")>>) }

\* A dict with the key only when the value is given.
WithOptional(fields, key, value) ==
    IF value = JNone THEN fields ELSE Put(fields, key, value)

ObjectSchema(props, additional, required) ==
    JDict(WithOptional(
              WithOptional("type" :> JStr("object") @@ "properties" :> JDict(props),
                           "additionalProperties", additional),
              "required", required))

RECURSIVE SchemasOfDepth(_)
SchemasOfDepth(d) ==
    IF d = 0 THEN {StringSchema, MapSchema}
    ELSE LET inner == SchemasOfDepth(d - 1)
             props == { "a" :> x : x \in inner }
                      \cup { "a" :> x @@ "b" :> StringSchema : x \in inner }
         IN  {StringSchema, MapSchema}
             \cup { ObjectSchema(p, additional, required) :
                        p \in props, additional \in AdditionalOptions,
                        required \in RequiredOptions }

Schemas == SchemasOfDepth(MaxSchemaDepth)

(***************************************************************************)
(* clients.py: _to_gemini_schema                                           *)
(***************************************************************************)
\* The deepest level convert still converts; below it a node is returned
\* as it is.  The code converts down to level 80; the model stops at a level
\* with the same remainders modulo 2 and 3, the lengths of the reference
\* cycles of the schemas below, so that a cycle is cut at the same node.
MaxConvertDepth == 8

\* str.upper() on the type names the schemas use.
upper(s) ==
    CASE s = "string" -> "STRING"
      [] s = "object" -> "OBJECT"
      [] s = "array" -> "ARRAY"
      [] s = "integer" -> "INTEGER"
      [] s = "null" -> "NULL"
      [] OTHER -> s

\* The definitions of the root: those under "$defs", updated with those
\* under "definitions".
Definitions(root) ==
    LET defs == Get(root.fields, "$defs")
        definitions == Get(root.fields, "definitions")
        first == IF defs.kind = "dict" THEN defs.fields ELSE JNoFields
        second == IF definitions.kind = "dict" THEN definitions.fields
                  ELSE JNoFields
    IN  [n \in DOMAIN first \cup DOMAIN second |->
            IF n \in DOMAIN second THEN second[n] ELSE first[n]]

\* resolve_ref: the definition a reference names under either prefix, None
\* for any other reference.
resolve_ref(ref, definitions) ==
    LET named == { n \in DOMAIN definitions :
                       \/ ref = "#/$defs/" \o n
                       \/ ref = "#/definitions/" \o n }
    IN  IF named = {} THEN JNone
        ELSE definitions[CHOOSE n \in named : TRUE]

passthrough_keys ==
    {"anyOf", "title", "description", "default", "examples", "example"}

\* The keys convert leaves out of a converted dict.
dropped_keys ==
    {"$defs", "definitions", "$schema", "$id", "$anchor", "$ref", "title",
     "examples", "example", "default", "const", "discriminator"}

\* An anyOf item counted as the null branch.
is_null_item(item) ==
    item.kind = "dict" /\ Get(item.fields, "type") = JStr("null")

\* The definition node["$ref"] resolves to, None when the node has no
\* string "$ref" or the reference names no definition.
ref_target(f, definitions) ==
    LET ref == Get(f, "$ref")
    IN  IF ref.kind = "str" THEN resolve_ref(ref.str, definitions) ELSE JNone

\* deepcopy(target), then every key of the node but "$ref" written into it.
merge(target, f) ==
    [k \in DOMAIN target.fields \cup (DOMAIN f \ {"$ref"}) |->
        IF k \in DOMAIN f /\ k # "$ref" THEN f[k] ELSE target.fields[k]]

\* non_null_items of the node's anyOf list.
non_null_items(f) ==
    LET not_null(item) == ~is_null_item(item)
    IN  SelectSeq(Get(f, "anyOf").items, not_null)

\* The node is a null branch, one other branch and passthrough keys only.
is_optional(f) ==
    LET anyOf == Get(f, "anyOf")
    IN  /\ anyOf.kind = "list"
        /\ \E i \in DOMAIN anyOf.items : is_null_item(anyOf.items[i])
        /\ Len(non_null_items(f)) = 1
        /\ DOMAIN f \subseteq passthrough_keys

\* The keys of a dict that convert carries over.
kept_keys(f) ==
    { k \in DOMAIN f :
        /\ k \notin dropped_keys
        /\ ~(k = "type" /\ f[k] = JStr("null")) }

RECURSIVE convert(_, _, _)
convert(node, depth, definitions) ==
    IF depth > MaxConvertDepth THEN node
    ELSE IF node.kind = "dict"
    THEN LET f == node.fields
             target == ref_target(f, definitions)
             base == convert(non_null_items(f)[1], depth + 1, definitions)
             nullable == Put(base.fields, "nullable", JBool(TRUE))
             described ==
                 IF "description" \in DOMAIN f /\ "description" \notin DOMAIN nullable
                 THEN Put(nullable, "description", f["description"])
                 ELSE nullable
             converted ==
                 [k \in kept_keys(f) |->
                     IF k = "type" /\ f[k].kind = "str"
                     THEN JStr(upper(f[k].str))
                     ELSE IF k = "properties" /\ f[k].kind = "dict"
                     THEN JDict([ik \in DOMAIN f[k].fields |->
                                    convert(f[k].fields[ik], depth + 1, definitions)])
                     ELSE IF k \in {"anyOf", "oneOf", "allOf"} /\ f[k].kind = "list"
                     THEN JList([i \in DOMAIN f[k].items |->
                                    convert(f[k].items[i], depth + 1, definitions)])
                     ELSE convert(f[k], depth + 1, definitions)]
         IN  IF target.kind = "dict"
             THEN convert(JDict(merge(target, f)), depth + 1, definitions)
             ELSE IF is_optional(f) /\ base.kind = "dict"
             THEN JDict(described)
             ELSE JDict(converted)
    ELSE IF node.kind = "list"
    THEN JList([i \in DOMAIN node.items |->
                   convert(node.items[i], depth + 1, definitions)])
    ELSE node

\* What a call ends with when it raises: the exception's class.
JRaised(class) == [kind |-> "raised", str |-> class, bool |-> FALSE,
                   items |-> <<>>, fields |-> JNoFields]

\* root.get(key) needs a dict: on anything else it raises AttributeError.
to_gemini_schema(s) ==
    IF s.kind # "dict" THEN JRaised("AttributeError")
    ELSE LET converted_root == convert(s, 0, Definitions(s))
         IN  IF converted_root.kind = "dict" THEN converted_root
             ELSE JDict("type" :> JStr("OBJECT"))

\* The greatest element of a non-empty set of numbers.
Greatest(S) == CHOOSE n \in S : \A m \in S : m <= n

\* The depth arguments of the convert calls that convert(node, depth) makes,
\* itself included: the greatest of them.  It follows the calls of convert
\* one by one: the call on the merged definition, the call on the one
\* non-null branch, and the calls on the values of the kept keys.
RECURSIVE convert_depth_two_levels_late(_, _, _)
convert_depth_two_levels_late(node, depth, definitions) ==
    IF depth > MaxConvertDepth + 2 THEN depth
    ELSE IF node.kind = "dict"
    THEN LET f == node.fields
             target == ref_target(f, definitions)
             base == convert(non_null_items(f)[1], depth + 1, definitions)
             of_base == IF is_optional(f)
                        THEN {convert_depth_two_levels_late(
                                  non_null_items(f)[1], depth + 1, definitions)}
                        ELSE {}
             of_values(k) ==
                 IF k = "type" /\ f[k].kind = "str" THEN {}
                 ELSE IF k = "properties" /\ f[k].kind = "dict"
                 THEN { convert_depth_two_levels_late(
                            f[k].fields[ik], depth + 1, definitions) :
                            ik \in DOMAIN f[k].fields }
                 ELSE IF k \in {"anyOf", "oneOf", "allOf"} /\ f[k].kind = "list"
                 THEN { convert_depth_two_levels_late(
                            f[k].items[i], depth + 1, definitions) :
                            i \in DOMAIN f[k].items }
                 ELSE {convert_depth_two_levels_late(f[k], depth + 1, definitions)}
         IN  IF target.kind = "dict"
             THEN convert_depth_two_levels_late(
                      JDict(merge(target, f)), depth + 1, definitions)
             ELSE IF is_optional(f) /\ base.kind = "dict"
             THEN Greatest({depth} \cup of_base)
             ELSE Greatest({depth} \cup of_base
                             \cup UNION { of_values(k) : k \in kept_keys(f) })
    ELSE IF node.kind = "list"
    THEN Greatest({depth} \cup
                  { convert_depth_two_levels_late(
                        node.items[i], depth + 1, definitions) :
                        i \in DOMAIN node.items })
    ELSE depth

RECURSIVE convert_depth(_, _, _)
convert_depth(node, depth, definitions) ==
    IF depth > MaxConvertDepth THEN depth
    ELSE IF node.kind = "dict"
    THEN LET f == node.fields
             target == ref_target(f, definitions)
             base == convert(non_null_items(f)[1], depth + 1, definitions)
             of_base == IF is_optional(f)
                        THEN {convert_depth(non_null_items(f)[1], depth + 1,
                                            definitions)}
                        ELSE {}
             of_values(k) ==
                 IF k = "type" /\ f[k].kind = "str" THEN {}
                 ELSE IF k = "properties" /\ f[k].kind = "dict"
                 THEN { convert_depth(f[k].fields[ik], depth + 1, definitions) :
                            ik \in DOMAIN f[k].fields }
                 ELSE IF k \in {"anyOf", "oneOf", "allOf"} /\ f[k].kind = "list"
                 THEN { convert_depth(f[k].items[i], depth + 1, definitions) :
                            i \in DOMAIN f[k].items }
                 ELSE {convert_depth(f[k], depth + 1, definitions)}
         IN  IF target.kind = "dict"
             THEN convert_depth(JDict(merge(target, f)), depth + 1, definitions)
             ELSE IF is_optional(f) /\ base.kind = "dict"
             THEN Greatest({depth} \cup of_base)
             ELSE Greatest({depth} \cup of_base
                             \cup UNION { of_values(k) : k \in kept_keys(f) })
    ELSE IF node.kind = "list"
    THEN Greatest({depth} \cup
                  { convert_depth(node.items[i], depth + 1, definitions) :
                        i \in DOMAIN node.items })
    ELSE depth

\* The deepest convert call of _to_gemini_schema(s); no call is made when
\* root.get raises.
gemini_deepest(s) ==
    IF s.kind # "dict" THEN 0 ELSE convert_depth(s, 0, Definitions(s))

(***************************************************************************)
(* Who holds the objects the translators assign into.  The caller holds    *)
(* the schema it passes in; the translator holds what it copies or builds. *)
(* A dict or list comprehension builds a new object; a node returned as it *)
(* is stays with whoever holds it.                                         *)
(***************************************************************************)
deepcopy_aliasing(holder) == holder

\* copy.deepcopy: the copy is made of new objects, the translator's own.
deepcopy(holder) == "translator"

\* Who holds the object convert(node, depth) returns, for a node of holder.
RECURSIVE convert_holder(_, _, _, _)
convert_holder(node, depth, definitions, holder) ==
    IF depth > MaxConvertDepth THEN holder
    ELSE IF node.kind = "dict"
    THEN LET f == node.fields
             target == ref_target(f, definitions)
             item == non_null_items(f)[1]
         IN  IF target.kind = "dict"
             THEN convert_holder(JDict(merge(target, f)), depth + 1, definitions,
                                 deepcopy(holder))
             ELSE IF /\ is_optional(f)
                     /\ convert(item, depth + 1, definitions).kind = "dict"
             THEN convert_holder(item, depth + 1, definitions, holder)
             ELSE "translator"
    ELSE IF node.kind = "list" THEN "translator"
    ELSE holder

\* The holders of the objects convert(node, depth) assigns into: merged on
\* merged[k] = v, base on base["nullable"] = True.
RECURSIVE convert_writes(_, _, _, _)
convert_writes(node, depth, definitions, holder) ==
    IF depth > MaxConvertDepth THEN {}
    ELSE IF node.kind = "dict"
    THEN LET f == node.fields
             target == ref_target(f, definitions)
             item == non_null_items(f)[1]
             of_value(k) ==
                 IF k = "type" /\ f[k].kind = "str" THEN {}
                 ELSE IF k = "properties" /\ f[k].kind = "dict"
                 THEN UNION { convert_writes(f[k].fields[ik], depth + 1,
                                             definitions, holder) :
                                  ik \in DOMAIN f[k].fields }
                 ELSE IF k \in {"anyOf", "oneOf", "allOf"} /\ f[k].kind = "list"
                 THEN UNION { convert_writes(f[k].items[i], depth + 1,
                                             definitions, holder) :
                                  i \in DOMAIN f[k].items }
                 ELSE convert_writes(f[k], depth + 1, definitions, holder)
             of_values == UNION { of_value(k) : k \in kept_keys(f) }
         IN  IF target.kind = "dict"
             THEN (IF DOMAIN f \ {"$ref"} # {} THEN {deepcopy(holder)} ELSE {})
                  \cup convert_writes(JDict(merge(target, f)), depth + 1,
                                      definitions, deepcopy(holder))
             ELSE IF is_optional(f)
             THEN convert_writes(item, depth + 1, definitions, holder)
                  \cup (IF convert(item, depth + 1, definitions).kind = "dict"
                        THEN {convert_holder(item, depth + 1, definitions, holder)}
                        ELSE of_values)
             ELSE of_values
    ELSE IF node.kind = "list"
    THEN UNION { convert_writes(node.items[i], depth + 1, definitions, holder) :
                     i \in DOMAIN node.items }
    ELSE {}

\* _to_gemini_schema converts root = deepcopy(schema), and fills a dict of
\* its own with the definitions.
gemini_written(s) ==
    IF s.kind # "dict" THEN {}
    ELSE (IF DOMAIN Definitions(s) # {} THEN {"translator"} ELSE {})
         \cup convert_writes(s, 0, Definitions(s), deepcopy("caller"))

\* normalize assigns only into normalized, the dict it has just built.
RECURSIVE normalize_writes(_)
normalize_writes(node) ==
    IF node.kind = "dict"
    THEN UNION { normalize_writes(node.fields[k]) : k \in DOMAIN node.fields }
         \cup (IF /\ Get(node.fields, "type") = JStr("object")
                  /\ Get(node.fields, "properties").kind = "dict"
                  /\ normalize(node) # JDict([k \in DOMAIN node.fields |->
                                                normalize(node.fields[k])])
               THEN {"translator"} ELSE {})
    ELSE IF node.kind = "list"
    THEN UNION { normalize_writes(node.items[i]) : i \in DOMAIN node.items }
    ELSE {}

openai_strict_written(s) == normalize_writes(s)

(***************************************************************************)
(* The schemas the Gemini translator is applied to: an object with one     *)
(* property, or a bare reference, over an optional definition "A" held     *)
(* under "$defs" or under "definitions".                                   *)
(***************************************************************************)
NullSchema == JDict("type" :> JStr("null"))

Ref(r) == JDict("$ref" :> JStr(r))

AnyOf(branches) == JDict("anyOf" :> JList(branches))

\* Optional[T] as pydantic emits it.
Nullable(t) == AnyOf(<<t, NullSchema>>)

ObjectWith(value) ==
    JDict("type" :> JStr("object") @@ "properties" :> JDict("a" :> value))

\* The bodies of the definition "A": plain ones, and ones that refer to "A"
\* again (directly, through a property, through an optional property).
DefinitionBodies ==
    { StringSchema,
      JDict(ObjectWith(StringSchema).fields @@ "title" :> JStr("A")),
      ObjectWith(Ref("#/$defs/A")),
      ObjectWith(Nullable(Ref("#/$defs/A"))),
      Ref("#/$defs/A") }

DefinitionKeys == {"$defs", "definitions"}

\* The schema of one property.
FieldSchemas ==
    { StringSchema,
      Ref("#/$defs/A"), Ref("#/definitions/A"), Ref("#/$defs/Z"),
      JDict(Ref("#/$defs/A").fields @@ "description" :> JStr("d")),
      Nullable(StringSchema), Nullable(Ref("#/$defs/A")),
      AnyOf(<<NullSchema, StringSchema>>),
      AnyOf(<<StringSchema, MapSchema, NullSchema>>),
      JDict(Nullable(StringSchema).fields @@ "description" :> JStr("d")),
      JDict(Nullable(StringSchema).fields @@ "format" :> JStr("uri")),
      JDict("type" :> JStr("array") @@ "items" :> Ref("#/$defs/A")) }

\* Definitions that refer to each other, and a definition that refers to
\* itself twice (a binary tree).
CyclicDefinitions ==
    { "A" :> ObjectWith(Ref("#/$defs/B")) @@ "B" :> ObjectWith(Ref("#/$defs/A")),
      "A" :> Ref("#/$defs/B") @@ "B" :> Ref("#/$defs/A"),
      "A" :> ObjectWith(Nullable(Ref("#/$defs/B")))
          @@ "B" :> JDict("type" :> JStr("array") @@ "items" :> Ref("#/$defs/A")),
      "A" :> JDict("type" :> JStr("object") @@
                   "properties" :> JDict("left" :> Ref("#/$defs/A") @@
                                         "right" :> Ref("#/$defs/A"))) }

\* Roots that are not mappings: a list, a string, a boolean.
NonMappingRoots == {JList(<<StringSchema>>), JStr("object"), JBool(TRUE)}

GeminiSchemas ==
    LET roots == { ObjectWith(x) : x \in FieldSchemas } \cup {Ref("#/$defs/A")}
    IN  roots \cup { JDict(r.fields @@ key :> JDict("A" :> body)) :
                        r \in roots, key \in DefinitionKeys,
                        body \in DefinitionBodies }
              \cup { JDict(r.fields @@ "$defs" :> JDict(defs)) :
                        r \in {Ref("#/$defs/A"), ObjectWith(Ref("#/$defs/A"))},
                        defs \in CyclicDefinitions }
              \cup NonMappingRoots

(***************************************************************************)
(* session_store.py.  The session's quiz has one question of each type;    *)
(* options are "a" and "b".                                                *)
(***************************************************************************)
MAX_ATTEMPTS_PER_QUESTION == 3

\* question id -> [type, correct_option_ids]
QuizQuestions ==
    [q1 |-> [type |-> "mcq_single", correct_option_ids |-> {"a"}],
     q2 |-> [type |-> "mcq_multi", correct_option_ids |-> {"a", "b"}],
     q3 |-> [type |-> "short_text", correct_option_ids |-> {}]]

OptionOrder == <<"a", "b">>

\* sorted(set(ids))
SortedSet(ids) ==
    LET in_ids(o) == \E i \in DOMAIN ids : ids[i] = o
    IN  SelectSeq(OptionOrder, in_ids)

\* A value that is None.
None == "None"

\* The threads that call submit_answer on the session.
Submitters == {"s1", "s2"}

\* SessionAnswer(question_id=...)
NewSessionAnswer ==
    [attempts_used |-> 0, is_correct |-> FALSE, locked |-> FALSE,
     selected_option_ids |-> None, short_answer |-> None, feedback |-> None]

\* AnswerSubmissionRequest values the model submits.  A short answer is
\* "blank" (only white space) or "text".
Payloads ==
    [question_id : DOMAIN QuizQuestions \cup {"q9"},
     selected_option_ids : {None, <<"a">>, <<"b">>, <<"a", "b">>, <<"b", "a">>},
     short_answer : {None, "blank", "text"}]

\* The payloads the threads submit at the same time, all for the same
\* question: the short-text one, whose grading is a call to a provider.
ConcurrentPayloads ==
    { p \in Payloads :
        p.question_id = "q3" /\ p.selected_option_ids = None }

\* What grade_short_answer ends with: a grade that counts as correct (correct
\* and confident enough), one that does not, or an exception.
Grades == {"correct", "incorrect", "raises"}

AnswerSubmissionResponse(status, used, remaining, is_correct, locked, feedback) ==
    [status |-> status, attempts_used |-> used,
     attempts_remaining |-> remaining, is_correct |-> is_correct,
     locked |-> locked, feedback |-> feedback]

NoResponse == AnswerSubmissionResponse("none", 0, 0, FALSE, FALSE, None)

\* submit_answer raised: the exception of grade_short_answer.
RaisedResponse == AnswerSubmissionResponse("raised", 0, 0, FALSE, FALSE, None)

\* max(0, MAX_ATTEMPTS_PER_QUESTION - attempts_used)
attempts_remaining(attempts_used) ==
    IF MAX_ATTEMPTS_PER_QUESTION - attempts_used > 0
    THEN MAX_ATTEMPTS_PER_QUESTION - attempts_used ELSE 0

Invalid(answer, feedback) ==
    AnswerSubmissionResponse("invalid", answer.attempts_used,
                             attempts_remaining(answer.attempts_used),
                             FALSE, FALSE, feedback)

out_of_attempts_late(attempts_used) == attempts_used > MAX_ATTEMPTS_PER_QUESTION

\* answer.attempts_used >= MAX_ATTEMPTS_PER_QUESTION
out_of_attempts(attempts_used) == attempts_used >= MAX_ATTEMPTS_PER_QUESTION

\* Accept that locks an answer only when its attempts are used up.
AcceptLockingOnlyWhenOut(answer, is_correct, feedback) ==
    LET used == answer.attempts_used + 1
        locked == out_of_attempts(used)
        updated == [answer EXCEPT !.attempts_used = used,
                                  !.is_correct = is_correct,
                                  !.locked = locked,
                                  !.feedback = feedback]
    IN  [answer |-> updated,
         response |-> AnswerSubmissionResponse(
                          "accepted", used, attempts_remaining(used),
                          is_correct, locked, feedback)]

\* Lines 307-321: the submission counts.
Accept(answer, is_correct, feedback) ==
    LET used == answer.attempts_used + 1
        locked == is_correct \/ out_of_attempts(used)
        updated == [answer EXCEPT !.attempts_used = used,
                                  !.is_correct = is_correct,
                                  !.locked = locked,
                                  !.feedback = feedback]
    IN  [answer |-> updated,
         response |-> AnswerSubmissionResponse(
                          "accepted", used, attempts_remaining(used),
                          is_correct, locked, feedback)]

\* The part of submit_answer after the session and the question are found:
\* the answer as the call leaves it, and the response.
SubmitTo(question, answer, payload, grade) ==
    LET selected == IF payload.selected_option_ids = None THEN <<>>
                    ELSE payload.selected_option_ids
        unchanged(resp) == [answer |-> answer, response |-> resp]
    IN  IF answer.locked
        THEN unchanged(AnswerSubmissionResponse(
                 "locked", answer.attempts_used,
                 attempts_remaining(answer.attempts_used), answer.is_correct,
                 TRUE,
                 IF answer.feedback = None THEN "Question is locked."
                 ELSE answer.feedback))
        ELSE IF question.type = "mcq_single"
        THEN IF Len(selected) # 1
             THEN unchanged(Invalid(answer, "Select exactly one option."))
             ELSE LET is_correct == selected[1] \in question.correct_option_ids
                  IN  Accept([answer EXCEPT !.selected_option_ids = selected],
                             is_correct,
                             IF is_correct THEN "Correct answer."
                             ELSE "incorrect")
        ELSE IF question.type = "mcq_multi"
        THEN IF SortedSet(selected) = <<>>
             THEN unchanged(Invalid(answer, "Select one or more options."))
             ELSE LET chosen == SortedSet(selected)
                      is_correct ==
                          {chosen[i] : i \in DOMAIN chosen}
                              = question.correct_option_ids
                  IN  Accept([answer EXCEPT !.selected_option_ids = chosen],
                             is_correct,
                             IF is_correct THEN "Correct answer set selected."
                             ELSE "incorrect")
        ELSE IF question.type = "short_text"
        THEN IF payload.short_answer \in {None, "blank"}
             THEN unchanged(Invalid(answer,
                                    "Enter a short answer before checking."))
             ELSE IF grade = "raises" THEN unchanged(RaisedResponse)
             ELSE Accept([answer EXCEPT !.short_answer = payload.short_answer],
                         grade = "correct",
                         IF grade = "correct" THEN "reason" ELSE "incorrect")
        ELSE unchanged(AnswerSubmissionResponse(
                 "error", answer.attempts_used,
                 attempts_remaining(answer.attempts_used), FALSE, FALSE,
                 "Unsupported question type."))

\* submit_answer that counts an attempt for every submission to a question
\* of the quiz, rejected or not.
submit_answer_charging_rejected(record_answers, payload, grade) ==
    IF payload.question_id \notin DOMAIN QuizQuestions
    THEN [answers |-> record_answers,
          response |-> AnswerSubmissionResponse(
                           "invalid", 0, 0, FALSE, FALSE, "Question not found.")]
    ELSE LET q == payload.question_id
             done == SubmitTo(QuizQuestions[q], record_answers[q], payload, grade)
             charged == IF done.response.status \in {"invalid", "locked"}
                        THEN [done.answer EXCEPT !.attempts_used = @ + 1]
                        ELSE done.answer
         IN  [answers |-> [record_answers EXCEPT ![q] = charged],
              response |-> done.response]

\* submit_answer on the session: the answers as the call leaves them, and
\* the response.
submit_answer(record_answers, payload, grade) ==
    IF payload.question_id \notin DOMAIN QuizQuestions
    THEN [answers |-> record_answers,
          response |-> AnswerSubmissionResponse(
                           "invalid", 0, 0, FALSE, FALSE, "Question not found.")]
    ELSE LET q == payload.question_id
             done == SubmitTo(QuizQuestions[q], record_answers[q], payload, grade)
         IN  [answers |-> [record_answers EXCEPT ![q] = done.answer],
              response |-> done.response]

(***************************************************************************)
(* The feedback of an incorrect submission.  A text is kept by what        *)
(* _answer_revealed looks at once the text is stripped: whether it is      *)
(* empty, which of the reveal patterns match it and which of the strings   *)
(* of SensitiveStrings occur in it, letter case ignored.  "fixed" names    *)
(* the message of the code the text is, if it is one.                      *)
(***************************************************************************)
\* Strings a question may have among its sensitive tokens: an option id of
\* one character, an option text of one letter after a blank, a word of the
\* generic message, and a word of none of the messages of the code.
SensitiveStrings == {"a", " a", "context", "paris"}

\* token.strip().lower()
cleaned(token) == IF token = " a" THEN "a" ELSE token

\* The reveal_patterns of lines 92-101.
RevealPatterns ==
    {"correct answer", "expected answer", "the answer is",
     "option <id> is correct", "should be", "must be",
     "response does not match", "matches the expected"}

Text(fixed, blank, phrases, contains) ==
    [fixed |-> fixed, blank |-> blank, phrases |-> phrases,
     contains |-> contains]

\* No feedback has been computed.
NoText == Text("unset", TRUE, {}, {})

\* "That's not correct. Re-read the question and source context, then try
\* again."
GENERIC_INCORRECT_FEEDBACK == Text("generic", FALSE, {}, {"a", " a", "context"})

\* "That option is not correct for this question."
SingleDefaultFeedback == Text("single_default", FALSE, {}, {"a"})

\* "The selected set is not correct. Review and try again."
MultiDefaultFeedback == Text("multi_default", FALSE, {}, {"a", " a"})

\* A distractor without feedback, or with the empty string as feedback.
AbsentFeedback == Text("absent", TRUE, {}, {})

\* The texts a quiz or a grader may supply: the empty one, and texts that
\* match at most one reveal pattern and hold any of the tokens (a text
\* that holds " a" holds "a").
SuppliedTexts ==
    {AbsentFeedback}
    \cup { Text("supplied", FALSE, phrases, contains) :
             phrases \in {{}} \cup { {p} : p \in RevealPatterns },
             contains \in { c \in SUBSET SensitiveStrings : " a" \in c => "a" \in c } }

\* _answer_revealed that looks at the tokens only.
answer_revealed_by_token_only(text, tokens) ==
    \/ text.blank
    \/ \E token \in tokens :
          /\ Len(cleaned(token)) >= 2
          /\ cleaned(token) \in text.contains

\* _answer_revealed
answer_revealed(text, tokens) ==
    \/ text.blank
    \/ text.phrases # {}
    \/ \E token \in tokens :
          /\ Len(cleaned(token)) >= 2
          /\ cleaned(token) \in text.contains

\* _safe_incorrect_feedback
safe_incorrect_feedback(raw_feedback, tokens) ==
    IF raw_feedback.blank THEN GENERIC_INCORRECT_FEEDBACK
    ELSE IF answer_revealed(raw_feedback, tokens)
    THEN GENERIC_INCORRECT_FEEDBACK
    ELSE raw_feedback

\* The feedback submit_answer gives to an incorrect submission: lines
\* 217-223 for mcq_single, 248-262 for mcq_multi, 290-293 for short_text.
\* supplied is the distractor feedback of the chosen option (of the first
\* wrong item that has one), or the reason of the grader.
incorrect_feedback(type, supplied, tokens) ==
    IF type = "mcq_single"
    THEN safe_incorrect_feedback(
             IF supplied.fixed = "absent" THEN SingleDefaultFeedback
             ELSE supplied, tokens)
    ELSE IF type = "mcq_multi"
    THEN safe_incorrect_feedback(
             IF supplied.blank THEN MultiDefaultFeedback ELSE supplied, tokens)
    ELSE safe_incorrect_feedback(supplied, tokens)

\* record.quiz.questions, in the order of the quiz.
QuestionOrder == <<"q1", "q2", "q3">>

\* The id of the session that create_session made.
SessionId == "session"

\* schemas.py: the fields of SessionStateResponse; none has a default.
SessionStateResponseFields ==
    {"session_id", "score", "correct_count", "total_questions",
     "current_index", "answers", "quiz"}

\* SessionStateResponse(**kwargs): pydantic raises ValidationError when a
\* required field is not given.
NewSessionStateResponse(kwargs) ==
    IF SessionStateResponseFields \subseteq DOMAIN kwargs
    THEN [kind |-> "ok", value |-> kwargs]
    ELSE [kind |-> "validation_error"]

\* AnswerState(...) of lines 137-146.
AnswerState(q, answer) ==
    [question_id |-> q, attempts_used |-> answer.attempts_used,
     attempts_remaining |-> attempts_remaining(answer.attempts_used),
     is_correct |-> answer.is_correct, locked |-> answer.locked,
     selected_option_ids |-> answer.selected_option_ids,
     short_answer |-> answer.short_answer, feedback |-> answer.feedback]

\* Lines 129-152: the index (from 0) of the first question that is not
\* locked, the last index when all are locked.
current_index(record_answers) ==
    LET unlocked == { i \in DOMAIN QuestionOrder :
                        ~record_answers[QuestionOrder[i]].locked }
    IN  IF unlocked = {} THEN Len(QuestionOrder) - 1
        ELSE (CHOOSE i \in unlocked : \A j \in unlocked : i <= j) - 1

\* Lines 127-135: the number of answers that are correct.
score(record_answers) ==
    Cardinality({ q \in DOMAIN record_answers : record_answers[q].is_correct })

\* _build_state
build_state(record_answers) ==
    NewSessionStateResponse(
        [session_id |-> SessionId,
         score |-> score(record_answers),
         total_questions |-> Len(QuestionOrder),
         current_index |-> current_index(record_answers),
         answers |-> [q \in DOMAIN record_answers |->
                         AnswerState(q, record_answers[q])],
         quiz |-> QuestionOrder])

\* get_state: get_session raises KeyError for an id the store does not hold.
get_state(sessions, session_id, record_answers) ==
    IF session_id \notin sessions THEN [kind |-> "key_error"]
    ELSE build_state(record_answers)

\* The local variables of a thread that is not inside submit_answer.
NoRequest ==
    [question_id |-> None, is_correct |-> FALSE, feedback |-> None, loaded |-> 0]

\* get_state has not been called.
NoState == [result |-> [kind |-> "none"], session_id |-> None]

\* No session has been created.
NoSession ==
    /\ answers = [q \in {} |-> NewSessionAnswer]
    /\ submitted = None
    /\ response = NoResponse
    /\ incorrect_accepted = [q \in {} |-> 0]
    /\ spc = [t \in {} |-> "idle"]
    /\ sreq = [t \in {} |-> NoRequest]
    /\ state = NoState
    /\ sensitive_tokens = {}
    /\ given_feedback = NoText

(***************************************************************************)
(* schemas.py: QuizModel.  A question is its id and its type; each is      *)
(* taken to pass the validation of its own model.                          *)
(***************************************************************************)
QuestionTypes == {"mcq_single", "mcq_multi", "short_text"}

\* min_length and max_length of QuizModel.questions
QuizLength == 15

\* The number of questions validate_distribution asks of each type.
ExpectedCount ==
    [mcq_single |-> 10, mcq_multi |-> 2, short_text |-> 3]

Question(id, type) == [id |-> id, type |-> type]

\* The loop of validate_distribution from question i on, ids and type_counts
\* being what the questions before i gave.
RECURSIVE distribution_from(_, _, _, _)
distribution_from(qs, i, ids, type_counts) ==
    IF i > Len(qs)
    THEN IF type_counts["mcq_single"] # ExpectedCount["mcq_single"]
         THEN "ValidationError"
         ELSE IF type_counts["mcq_multi"] # ExpectedCount["mcq_multi"]
         THEN "ValidationError"
         ELSE IF type_counts["short_text"] # ExpectedCount["short_text"]
         THEN "ValidationError"
         ELSE "accepted"
    ELSE IF qs[i].id \in ids THEN "ValidationError"
    ELSE distribution_from(qs, i + 1, ids \cup {qs[i].id},
                           [type_counts EXCEPT ![qs[i].type] = @ + 1])

validate_distribution_of_counts(qs) ==
    distribution_from([i \in DOMAIN qs |-> Question(i, qs[i].type)], 1, {},
                      [t \in QuestionTypes |-> 0])

validate_distribution(qs) ==
    distribution_from(qs, 1, {}, [t \in QuestionTypes |-> 0])

\* QuizModel.model_validate: the length of the list is checked with the
\* fields, before validate_distribution runs.
QuizModelValidate(qs) ==
    IF Len(qs) < QuizLength \/ Len(qs) > QuizLength THEN "ValidationError"
    ELSE validate_distribution(qs)

\* The quizzes handed to the model: the quiz of the repository's test, and
\* what one or two changes make of it: a question given another type, or
\* the id of another question, a question removed, a question added.
TestQuiz ==
    [i \in 1..QuizLength |->
        Question(i, IF i <= 10 THEN "mcq_single"
                    ELSE IF i <= 12 THEN "mcq_multi" ELSE "short_text")]

Retyped(qs) ==
    { [qs EXCEPT ![i].type = t] : i \in DOMAIN qs, t \in QuestionTypes }

Renamed(qs) ==
    { [qs EXCEPT ![i].id = qs[j].id] : i \in DOMAIN qs, j \in DOMAIN qs }

Shortened(qs) ==
    { SubSeq(qs, 1, i - 1) \o SubSeq(qs, i + 1, Len(qs)) : i \in DOMAIN qs }

Lengthened(qs) ==
    { Append(qs, Question(Len(qs) + 1, t)) : t \in QuestionTypes }
    \cup { Append(qs, Question(QuizLength + 2, t)) : t \in QuestionTypes }

Changed(qs) == Retyped(qs) \cup Renamed(qs) \cup Shortened(qs) \cup Lengthened(qs)

Quizzes ==
    Changed(TestQuiz)
    \cup UNION { Retyped(qs) : qs \in Retyped(TestQuiz) }
    \cup UNION { Retyped(qs) \cup Lengthened(qs) : qs \in Shortened(TestQuiz) }

NoQuiz ==
    /\ questions = <<>>
    /\ validation = None

\* No pure function has been called.
NoTranslation ==
    /\ schema = JNone
    /\ translated = JNone
    /\ written = {}
    /\ deepest = 0

NoExchange ==
    [client |-> "none", configured |-> FALSE, json_schema |-> FALSE,
     resp |-> NoAnswer, resp2 |-> NoAnswer]

NoGenerated == Generated(Ok("none"), <<>>)

NoClientCall ==
    /\ exchange = NoExchange
    /\ generated = NoGenerated

NoPure ==
    /\ input_text = <<>>
    /\ extraction = NoExtraction
    /\ NoTranslation
    /\ NoClientCall
    /\ NoSession
    /\ NoQuiz

(***************************************************************************)
(* Init: an LLMManager constructed from some Settings, no call made yet.   *)
(***************************************************************************)
\* LLMTelemetryStore.__init__: an enabled store creates its files.
StoreInit ==
    /\ counters_file = IF telemetry_enabled THEN FileWith(empty_counter_snapshot)
                       ELSE MissingFile
    /\ tmp_file = MissingFile
    /\ events_lines = 0
    /\ lock = "free"
    /\ tpc = [t \in Threads |-> "idle"]
    /\ tevent = [t \in Threads |-> NoEvent]
    /\ tlocal = [t \in Threads |-> empty_counter_snapshot]
    /\ started = 0
    /\ completed = 0
    /\ clock = 1

NoCall ==
    /\ op = "none"
    /\ task = "none"
    /\ pc = "idle"
    /\ pidx = 1
    /\ attempt_index = 0
    /\ attempts_made = 0
    /\ errors = <<>>
    /\ result = NoResult
    /\ backendAnswer = NoAnswer
    /\ repairAnswer = NoAnswer
    /\ trace = <<>>
    /\ prompts = <<>>

Init ==
    /\ order \in ProviderOrders
    /\ configured \in SUBSET {order[i] : i \in DOMAIN order}
    /\ max_retries \in RetrySettings
    /\ failover_on \in FailoverPolicies
    /\ telemetry_enabled \in BOOLEAN
    /\ NoCall
    /\ StoreInit
    /\ NoPure

(***************************************************************************)
(* The caller invokes one of the three operations.                         *)
(***************************************************************************)
Start ==
    /\ pc = "idle"
    /\ \E o \in Operations, t \in Tasks :
          /\ op' = o
          /\ task' = t
    /\ pc' = "provider"
    /\ pidx' = 1
    /\ errors' = <<>>
    /\ UNCHANGED <<store, pure>>
    /\ UNCHANGED <<settings, attempt_index, attempts_made, result,
                   backendAnswer, repairAnswer, trace, prompts>>

(***************************************************************************)
(* for provider_name in self.settings.llm_provider_order (191-198, 271-281)*)
(***************************************************************************)
SkipUnconfigured ==
    /\ pc = "provider"
    /\ pidx <= Len(order)
    /\ ~is_configured(order[pidx])
    /\ errors' = Append(errors, ErrorEntry(order[pidx], "not configured"))
    /\ pidx' = pidx + 1
    /\ UNCHANGED <<store, pure>>
    /\ UNCHANGED <<settings, op, task, pc, attempt_index, attempts_made,
                   result, backendAnswer, repairAnswer, trace, prompts>>

EnterProvider ==
    /\ pc = "provider"
    /\ pidx <= Len(order)
    /\ is_configured(order[pidx])
    /\ pc' = "attempt"
    /\ attempt_index' = 0
    /\ UNCHANGED <<store, pure>>
    /\ UNCHANGED <<settings, op, task, pidx, attempts_made, errors, result,
                   backendAnswer, repairAnswer, trace, prompts>>

\* The raise after the loop (257-260, 418-421).
Exhausted ==
    /\ pc = "provider"
    /\ pidx > Len(order)
    /\ result' = RaisedAggregate(
                     IF op = "complete_json_model" THEN "invalid_json"
                     ELSE "server_error", errors)
    /\ pc' = "done"
    /\ UNCHANGED <<store, pure>>
    /\ UNCHANGED <<settings, op, task, pidx, attempt_index, attempts_made,
                   errors, backendAnswer, repairAnswer, trace, prompts>>

\* The loop control after an attempt whose handler neither returned nor raised.
NextIteration(total) ==
    IF attempt_index + 1 < total
    THEN /\ attempt_index' = attempt_index + 1
         /\ UNCHANGED <<pc, pidx>>
    ELSE /\ pc' = "provider"
         /\ pidx' = pidx + 1
         /\ UNCHANGED attempt_index

(***************************************************************************)
(* One iteration of the attempt loop of complete_text (199-255); also the  *)
(* complete_text call made by complete_json_dict (429).                    *)
(***************************************************************************)
AttemptText ==
    /\ pc = "attempt"
    /\ op \in {"complete_text", "complete_json_dict"}
    /\ \E ans \in ManagerResponses :
         LET provider == order[pidx]
             body == TextAttemptBody(provider, task, ans)
             h == TextHandler(body.out)
             event == Event("complete_text", task, provider, attempt_index + 1,
                            IF body.out.kind = "ok" THEN "success" ELSE "error",
                            h.category)
         IN  /\ attempts_made' = attempts_made + 1
             /\ backendAnswer' = ans
             /\ repairAnswer' = NoAnswer
             /\ prompts' = Append(prompts,
                                  PromptEntry(provider, attempt_index, UserPrompt))
             /\ trace' = trace \o body.pre \o Record(event)
             /\ errors' = IF h.logged
                          THEN Append(errors, ErrorEntry(provider, h.category))
                          ELSE errors
             /\ CASE h.verdict = "return" ->
                       /\ result' = Returned(provider, body.out.text)
                       /\ pc' = IF op = "complete_json_dict"
                                THEN "parse_dict" ELSE "done"
                       /\ UNCHANGED <<pidx, attempt_index>>
                  [] h.verdict = "raise" ->
                       /\ result' = Raised(h.category)
                       /\ pc' = "done"
                       /\ UNCHANGED <<pidx, attempt_index>>
                  [] OTHER ->
                       /\ NextIteration(TextAttempts)
                       /\ UNCHANGED result
    /\ UNCHANGED <<store, pure>>
    /\ UNCHANGED <<settings, op, task>>

(***************************************************************************)
(* One iteration of the attempt loop of complete_json_model (282-416).     *)
(***************************************************************************)
AttemptJsonModel ==
    /\ pc = "attempt"
    /\ op = "complete_json_model"
    /\ \E ans \in ManagerResponses :
       \E rans \in RepairResponsesAfter(ans) :
         LET provider == order[pidx]
             total == TotalAttempts(provider, task)
             body == JsonModelAttemptBody(provider, task, ans, rans)
             h == JsonModelHandler(body.out, attempt_index, total)
             event == Event("complete_json_model", task, provider,
                            attempt_index + 1,
                            IF body.out.kind = "ok" THEN "success" ELSE "error",
                            h.category)
         IN  /\ attempts_made' = attempts_made + 1
             /\ backendAnswer' = ans
             /\ repairAnswer' = rans
             /\ prompts' = Append(prompts,
                                  PromptEntry(provider, attempt_index,
                                              prompt_for_attempt(attempt_index)))
             /\ trace' = trace \o body.pre \o Record(event)
             /\ errors' = IF h.logged
                          THEN Append(errors, ErrorEntry(provider, h.category))
                          ELSE errors
             /\ CASE h.verdict = "return" ->
                       /\ result' = Returned(provider, body.out.text)
                       /\ pc' = "done"
                       /\ UNCHANGED <<pidx, attempt_index>>
                  [] h.verdict = "raise" ->
                       /\ result' = Raised(h.category)
                       /\ pc' = "done"
                       /\ UNCHANGED <<pidx, attempt_index>>
                  [] OTHER ->
                       /\ NextIteration(total)
                       /\ UNCHANGED result
    /\ UNCHANGED <<store, pure>>
    /\ UNCHANGED <<settings, op, task>>

(***************************************************************************)
(* complete_json_dict after complete_text has returned (430-442).          *)
(***************************************************************************)
ParseDict ==
    /\ pc = "parse_dict"
    /\ \E rans \in RepairResponses :
         LET provider == result.provider
             extracted == extract_json_text(result.text)
             parsed == json_loads(extracted.text)
             repair == RepairJson(provider, task, rans)
             extracted2 == extract_json_text(repair.out.text)
             parsed2 == json_loads(extracted2.text)
         IN  IF extracted.kind # "ok"
             THEN /\ result' = Raised("invalid_json")
                  /\ UNCHANGED <<trace, repairAnswer>>
             ELSE IF parsed.kind = "ok"
             THEN /\ result' = Returned(provider, parsed.text)
                  /\ UNCHANGED <<trace, repairAnswer>>
             ELSE /\ repairAnswer' = rans
                  /\ trace' = trace \o repair.trace
                  /\ result' =
                       IF repair.out.kind = "llm_error"
                       THEN Raised(repair.out.category)
                       ELSE IF repair.out.kind # "ok" THEN RaisedRaw
                       ELSE IF extracted2.kind # "ok" THEN Raised("invalid_json")
                       ELSE IF parsed2.kind # "ok" THEN RaisedRaw
                       ELSE Returned(provider, parsed2.text)
    /\ pc' = "done"
    /\ UNCHANGED <<store, pure>>
    /\ UNCHANGED <<settings, op, task, pidx, attempt_index, attempts_made,
                   errors, backendAnswer, prompts>>

(***************************************************************************)
(* telemetry.py: record_attempt (140-195), one thread at a time through    *)
(* its steps.                                                              *)
(***************************************************************************)
\* if not self.enabled: return
RecordDisabled(t) ==
    /\ ~telemetry_enabled
    /\ tpc[t] = "idle"
    /\ started < MaxEvents
    /\ started' = started + 1
    /\ completed' = completed + 1
    /\ UNCHANGED <<counters_file, tmp_file, events_lines, lock, tpc, tevent,
                   tlocal, clock>>
    /\ UNCHANGED <<settings, call, pure>>

\* The timestamp and the event are built before the lock is taken (157-175).
RecordBegin(t) ==
    /\ telemetry_enabled
    /\ tpc[t] = "idle"
    /\ started < MaxEvents
    /\ \E in \in TelemetryInputs :
          tevent' = [tevent EXCEPT ![t] =
                        [provider |-> in.provider, task |-> in.task,
                         model |-> in.model, outcome |-> in.outcome,
                         category |-> in.category, month |-> Months[clock]]]
    /\ tpc' = [tpc EXCEPT ![t] = "lock"]
    /\ started' = started + 1
    /\ UNCHANGED <<counters_file, tmp_file, events_lines, lock, tlocal,
                   completed, clock>>
    /\ UNCHANGED <<settings, call, pure>>

LockFreeUnchecked(t) == TRUE

LockFree(t) == lock = "free"

\* with self._lock:
Acquire(t) ==
    /\ tpc[t] = "lock"
    /\ LockFree(t)
    /\ lock' = t
    /\ tpc' = [tpc EXCEPT ![t] = "append"]
    /\ UNCHANGED <<counters_file, tmp_file, events_lines, tevent, tlocal,
                   started, completed, clock>>
    /\ UNCHANGED <<settings, call, pure>>

\* _ensure_files, then the event line is appended to the log (178-180).
AppendEvent(t) ==
    /\ tpc[t] = "append"
    /\ counters_file' = IF counters_file.state = "missing"
                        THEN FileWith(empty_counter_snapshot) ELSE counters_file
    /\ events_lines' = events_lines + 1
    /\ tpc' = [tpc EXCEPT ![t] = "read"]
    /\ UNCHANGED <<tmp_file, lock, tevent, tlocal, started, completed, clock>>
    /\ UNCHANGED <<settings, call, pure>>

\* counters = self._read_counters(); both scopes are bumped (182-193).
\* An exception leaves the with block (the lock is released) and
\* record_attempt: the thread ends in "raised".
ReadAndBump(t) ==
    /\ tpc[t] = "read"
    /\ IF read_and_bump_raises(counters_file)
       THEN /\ tpc' = [tpc EXCEPT ![t] = "raised"]
            /\ lock' = IF lock = t THEN "free" ELSE lock
            /\ UNCHANGED tlocal
       ELSE /\ tlocal' = [tlocal EXCEPT ![t] =
                             BumpCounters(read_counters(counters_file), tevent[t])]
            /\ tpc' = [tpc EXCEPT ![t] = "write_tmp"]
            /\ UNCHANGED lock
    /\ UNCHANGED <<counters_file, tmp_file, events_lines, tevent,
                   started, completed, clock>>
    /\ UNCHANGED <<settings, call, pure>>

\* _write_counters: tmp_path.write_text(...)
WriteTmp(t) ==
    /\ tpc[t] = "write_tmp"
    /\ tmp_file' = FileWith(tlocal[t])
    /\ tpc' = [tpc EXCEPT ![t] = "rename"]
    /\ UNCHANGED <<counters_file, events_lines, lock, tevent, tlocal,
                   started, completed, clock>>
    /\ UNCHANGED <<settings, call, pure>>

\* _write_counters: tmp_path.replace(self.counters_path)
Rename(t) ==
    /\ tpc[t] = "rename"
    /\ counters_file' = tmp_file
    /\ tmp_file' = MissingFile
    /\ tpc' = [tpc EXCEPT ![t] = "release"]
    /\ UNCHANGED <<events_lines, lock, tevent, tlocal, started, completed,
                   clock>>
    /\ UNCHANGED <<settings, call, pure>>

\* The with block ends and record_attempt returns.
Release(t) ==
    /\ tpc[t] = "release"
    /\ lock' = IF lock = t THEN "free" ELSE lock
    /\ tpc' = [tpc EXCEPT ![t] = "idle"]
    /\ tevent' = [tevent EXCEPT ![t] = NoEvent]
    /\ tlocal' = [tlocal EXCEPT ![t] = empty_counter_snapshot]
    /\ completed' = completed + 1
    /\ UNCHANGED <<counters_file, tmp_file, events_lines, started, clock>>
    /\ UNCHANGED <<settings, call, pure>>

\* Time passes into the next month.
Tick ==
    /\ clock < Len(Months)
    /\ clock' = clock + 1
    /\ UNCHANGED <<counters_file, tmp_file, events_lines, lock, tpc, tevent,
                   tlocal, started, completed>>
    /\ UNCHANGED <<settings, call, pure>>

(***************************************************************************)
(* The process is killed and started again; the directory is also open to  *)
(* the operator.                                                           *)
(***************************************************************************)
\* LLMTelemetryStore.__init__ of the new process: _ensure_files.
RestartEnsure(file) ==
    IF file.state = "missing" THEN FileWith(empty_counter_snapshot) ELSE file

InterruptedWriteInPlace == [counters |-> PartialFile, tmp |-> tmp_file]

\* _write_counters killed inside tmp_path.write_text: the files it leaves.
InterruptedWrite == [counters |-> counters_file, tmp |-> PartialFile]

\* The threads of the new process.
ProcessRestarted ==
    /\ lock' = "free"
    /\ tpc' = [t \in Threads |-> "idle"]
    /\ tevent' = [t \in Threads |-> NoEvent]
    /\ tlocal' = [t \in Threads |-> empty_counter_snapshot]

\* Killed anywhere but inside a write of the temporary file: between two
\* steps of record_attempt, or inside the append of the event line.
Crash ==
    /\ \E t \in Threads : tpc[t] # "idle"
    /\ ProcessRestarted
    /\ counters_file' = RestartEnsure(counters_file)
    /\ UNCHANGED <<tmp_file, events_lines, started, completed, clock>>
    /\ UNCHANGED <<settings, call, pure>>

\* Killed inside tmp_path.write_text of _write_counters (called at line 195,
\* and by _ensure_files when the counters file is missing).
CrashInWrite(t) ==
    /\ \/ tpc[t] = "write_tmp"
       \/ tpc[t] = "append" /\ counters_file.state = "missing"
    /\ ProcessRestarted
    /\ counters_file' = RestartEnsure(InterruptedWrite.counters)
    /\ tmp_file' = InterruptedWrite.tmp
    /\ UNCHANGED <<events_lines, started, completed, clock>>
    /\ UNCHANGED <<settings, call, pure>>

\* The operator removes llm_counters.json.
Unlink ==
    /\ counters_file.state # "missing"
    /\ counters_file' = MissingFile
    /\ UNCHANGED <<tmp_file, events_lines, lock, tpc, tevent, tlocal, started,
                   completed, clock>>
    /\ UNCHANGED <<settings, call, pure>>

Next ==
    \/ Start
    \/ SkipUnconfigured
    \/ EnterProvider
    \/ Exhausted
    \/ AttemptText
    \/ AttemptJsonModel
    \/ ParseDict

Spec == Init /\ [][Next]_vars

(***************************************************************************)
(* The telemetry specification: threads of concurrent requests calling     *)
(* record_attempt on the one store of the process.                         *)
(***************************************************************************)
InitTelemetry ==
    /\ order = <<"openai">>
    /\ configured = {}
    /\ max_retries = 0
    /\ failover_on = {"all"}
    /\ telemetry_enabled \in BOOLEAN
    /\ NoCall
    /\ StoreInit
    /\ NoPure

NextTelemetry ==
    \/ \E t \in Threads : RecordDisabled(t)
    \/ \E t \in Threads : RecordBegin(t)
    \/ \E t \in Threads : Acquire(t)
    \/ \E t \in Threads : AppendEvent(t)
    \/ \E t \in Threads : ReadAndBump(t)
    \/ \E t \in Threads : WriteTmp(t)
    \/ \E t \in Threads : Rename(t)
    \/ \E t \in Threads : Release(t)
    \/ Tick

SpecTelemetry == InitTelemetry /\ [][NextTelemetry]_vars

(***************************************************************************)
(* The crash specification: an enabled store started over a directory      *)
(* whose counters file holds a snapshot or was damaged, threads calling    *)
(* record_attempt, the process killed and restarted at any point.          *)
(***************************************************************************)
InitCrash ==
    /\ order = <<"openai">>
    /\ configured = {}
    /\ max_retries = 0
    /\ failover_on = {"all"}
    /\ telemetry_enabled = TRUE
    /\ NoCall
    /\ NoPure
    /\ counters_file \in {FileWith(empty_counter_snapshot), UnparseableFile,
                          UndecodableFile, WrongShapeFile}
    /\ tmp_file = MissingFile
    /\ events_lines = 0
    /\ lock = "free"
    /\ tpc = [t \in Threads |-> "idle"]
    /\ tevent = [t \in Threads |-> NoEvent]
    /\ tlocal = [t \in Threads |-> empty_counter_snapshot]
    /\ started = 0
    /\ completed = 0
    /\ clock = 1

NextCrash ==
    \/ \E t \in Threads : RecordBegin(t)
    \/ \E t \in Threads : Acquire(t)
    \/ \E t \in Threads : AppendEvent(t)
    \/ \E t \in Threads : ReadAndBump(t)
    \/ \E t \in Threads : WriteTmp(t)
    \/ \E t \in Threads : Rename(t)
    \/ \E t \in Threads : Release(t)
    \/ Crash
    \/ \E t \in Threads : CrashInWrite(t)
    \/ Unlink

SpecCrash == InitCrash /\ [][NextCrash]_vars

(***************************************************************************)
(* Reading the trace.                                                      *)
(***************************************************************************)
IsCall(i) == trace[i].kind = "call"

IsEvent(i) == trace[i].kind = "event"

\* The generate_text calls of the main attempts (not of repair) to a provider.
MainCalls(provider) ==
    { i \in DOMAIN trace :
          IsCall(i) /\ trace[i].provider = provider /\ trace[i].task = task }

EventIndices == { i \in DOMAIN trace : IsEvent(i) }

OnlyConfigured == { order[i] : i \in DOMAIN order } \cap configured

(***************************************************************************)
(* C1  Failover gating.  Two configured providers [P1, P2], failover       *)
(* policy exactly {timeout}, complete_text or complete_json_model: a P1    *)
(* generate failure classified rate_limit reaches the caller as a          *)
(* rate_limit error and P2's generate is never called; when the call has   *)
(* ended and every P1 attempt failed classified timeout, P2's generate     *)
(* was called.                                                             *)
(***************************************************************************)
C1_Setting ==
    /\ op \in {"complete_text", "complete_json_model"}
    /\ Len(order) = 2
    /\ is_configured(order[1]) /\ is_configured(order[2])
    /\ failover_on = {"timeout"}

C1_FailoverGating ==
    C1_Setting =>
      /\ (\E i \in MainCalls(order[1]) :
              trace[i].outcome = "llm_error" /\ trace[i].category = "rate_limit")
           => /\ MainCalls(order[2]) = {}
              /\ pc = "done"
              /\ result.status = "error" /\ ~result.raw
              /\ result.category = "rate_limit"
      /\ ( /\ pc = "done"
           /\ MainCalls(order[1]) # {}
           /\ \A i \in MainCalls(order[1]) :
                  trace[i].outcome = "llm_error" /\ trace[i].category = "timeout" )
           => MainCalls(order[2]) # {}

\* Both attempts of P1 timed out and P2 was called.
C1_Witness ==
    /\ C1_Setting
    /\ pc = "done"
    /\ max_retries = 1
    /\ Cardinality(MainCalls(order[1])) = 2
    /\ \A i \in MainCalls(order[1]) : trace[i].category = "timeout"
    /\ MainCalls(order[2]) # {}

(***************************************************************************)
(* C2  Attempt budget.  In complete_text, with max_retries_per_provider =  *)
(* R (a negative R counts as 0), a configured provider the manager has     *)
(* left behind, all of whose generate calls failed with a failover-        *)
(* eligible category, received exactly R + 1 generate calls, all of them   *)
(* before any generate call to a later provider of the order.              *)
(***************************************************************************)
C2_Budget == (IF max_retries < 0 THEN 0 ELSE max_retries) + 1

C2_AllFailedEligible(provider) ==
    \A i \in MainCalls(provider) :
        /\ trace[i].outcome # "ok"
        /\ ("all" \in failover_on \/ trace[i].category \in failover_on)

C3_SucceededAt(i) ==
    /\ IsCall(i)
    /\ trace[i].outcome = "ok"
    /\ (op = "complete_json_model" => trace[i].text = "valid")

C3_SuccessShortCircuit ==
    op \in {"complete_text", "complete_json_model"} =>
      \A i \in DOMAIN trace :
          C3_SucceededAt(i) =>
            /\ \A j \in DOMAIN trace : j > i => ~IsCall(j)
            /\ pc = "done"
            /\ result.status = "ok"
            /\ result.provider = trace[i].provider
            /\ result.text = trace[i].text

\* A success on the second attempt of the first of two configured providers.
C3_Witness ==
    /\ op = "complete_text"
    /\ Len(order) = 2
    /\ order[2] \in configured
    /\ attempts_made = 2
    /\ \E i \in MainCalls(order[1]) : C3_SucceededAt(i)
    /\ result.status = "ok"

(***************************************************************************)
(* C4  When the backend of the first configured provider answers a         *)
(* complete_text request with HTTP 200 and non-empty text, complete_text   *)
(* returns that provider's name with that text and records exactly one     *)
(* telemetry event, a success.                                             *)
(***************************************************************************)
C4_TextSucceedsOnOkAnswer ==
    ( /\ op = "complete_text"
      /\ telemetry_enabled
      /\ attempts_made = 1
      /\ IsOkText(backendAnswer) )
    => /\ pc = "done"
       /\ result = Returned(order[pidx], backendAnswer.body)
       /\ Cardinality(EventIndices) = 1
       /\ \A i \in EventIndices :
              /\ trace[i].outcome = "success"
              /\ trace[i].provider = order[pidx]

(***************************************************************************)
(* C5  Skip unconfigured.  In every orchestration call, no generate call   *)
(* and no telemetry event ever names a provider that has no API key, and   *)
(* every unconfigured provider the manager has passed is logged as "not    *)
(* configured".                                                            *)
(***************************************************************************)
C5_SkipUnconfigured ==
    /\ \A i \in DOMAIN trace : trace[i].provider \in configured
    /\ \A k \in DOMAIN order :
          (k < pidx /\ order[k] \notin configured)
          => \E e \in DOMAIN errors :
                errors[e] = ErrorEntry(order[k], "not configured")

\* The first provider has no key and the second one has been attempted.
C5_Witness ==
    /\ Len(order) = 2
    /\ order[1] \notin configured
    /\ order[2] \in configured
    /\ \E i \in DOMAIN trace : IsCall(i) /\ trace[i].provider = order[2]

(***************************************************************************)
(* C6  Zero configured providers.  When no provider of the order is        *)
(* configured, any_provider_configured() is false, and a complete_text     *)
(* call that has ended failed with category server_error and a message     *)
(* that lists every provider of the order as "not configured", and no      *)
(* telemetry event was recorded.                                           *)
(***************************************************************************)
C6_ZeroConfigured ==
    OnlyConfigured = {} =>
      /\ ~any_provider_configured
      /\ (op = "complete_text" /\ pc = "done") =>
            /\ result.status = "error" /\ ~result.raw
            /\ result.category = "server_error"
            /\ result.message =
                 [k \in DOMAIN order |-> ErrorEntry(order[k], "not configured")]
            /\ trace = <<>>

C6_Witness ==
    /\ OnlyConfigured = {}
    /\ Len(order) = 2
    /\ op = "complete_text"
    /\ pc = "done"
    /\ telemetry_enabled

(***************************************************************************)
(* C9  One event per generate call, recorded before continuing.  With      *)
(* telemetry enabled, every generate_text call in the trace (of a main     *)
(* attempt or of a repair) is directly followed by one telemetry event     *)
(* for the same provider and task, with no other provider call and no      *)
(* return in between, and that event is not recorded a second time.        *)
(***************************************************************************)
C9_SameAttempt(i, j) ==
    /\ trace[i].operation = trace[j].operation
    /\ trace[i].task = trace[j].task
    /\ trace[i].provider = trace[j].provider
    /\ trace[i].attempt = trace[j].attempt

C10_RepairEndToEnd ==
    ( /\ op = "complete_json_model"
      /\ telemetry_enabled
      /\ Cardinality(OnlyConfigured) = 1
      /\ attempts_made = 1
      /\ backendAnswer = Response("ok", 200, "malformed")
      /\ repairAnswer = Response("ok", 200, "valid") )
    => /\ pc = "done"
       /\ result = Returned(order[pidx], "valid")
       /\ Cardinality(EventIndices) = 2
       /\ \E i \in EventIndices :
              trace[i].outcome = "error" /\ trace[i].category = "invalid_json"
       /\ \E i \in EventIndices : trace[i].outcome = "success"

(***************************************************************************)
(* C7  Telemetry invariant.  Starting from an empty snapshot, after any    *)
(* sequence of record_attempt calls with outcome success or error, every   *)
(* metric bucket of the persisted snapshot (totals, each provider, model,  *)
(* task, category and provider-task pair, all-time and in every month)     *)
(* has attempts = success + error, attempts >= success and attempts >=     *)
(* error.                                                                  *)
(***************************************************************************)
C7_BucketOk(bucket) ==
    /\ bucket.attempts = bucket.success + bucket.error
    /\ bucket.attempts >= bucket.success
    /\ bucket.attempts >= bucket.error

C7_MapOk(container) == \A k \in DOMAIN container : C7_BucketOk(container[k])

C7_PeriodOk(snapshot) ==
    /\ C7_BucketOk(snapshot.totals)
    /\ C7_MapOk(snapshot.providers)
    /\ C7_MapOk(snapshot.models)
    /\ C7_MapOk(snapshot.tasks)
    /\ C7_MapOk(snapshot.categories)
    /\ \A p \in DOMAIN snapshot.provider_task : C7_MapOk(snapshot.provider_task[p])

C7_TelemetryInvariant ==
    counters_file.state = "ok" =>
      /\ C7_PeriodOk(counters_file.data)
      /\ \A m \in DOMAIN counters_file.data.monthly :
             C7_PeriodOk(counters_file.data.monthly[m])

\* Three events of both outcomes, two providers and two months are counted.
C7_Witness ==
    /\ counters_file.state = "ok"
    /\ counters_file.data.totals.attempts = 3
    /\ counters_file.data.totals.success >= 1
    /\ counters_file.data.totals.error >= 1
    /\ Cardinality(DOMAIN counters_file.data.providers) = 2
    /\ Cardinality(DOMAIN counters_file.data.monthly) = 2

(***************************************************************************)
(* C8  Lost-update prevention.  With several threads calling               *)
(* record_attempt on the store, at most one of them is inside the          *)
(* append / read / bump / write-temp / rename sequence at a time, and      *)
(* whenever no call is in progress, after N completed calls (from an       *)
(* empty snapshot) totals.attempts = N and the event log holds N lines.    *)
(***************************************************************************)
C8_InCriticalSection(t) ==
    tpc[t] \in {"append", "read", "write_tmp", "rename", "release"}

C8_NoLostUpdate ==
    telemetry_enabled =>
      /\ \A t1, t2 \in Threads :
            (C8_InCriticalSection(t1) /\ C8_InCriticalSection(t2)) => t1 = t2
      /\ (\A t \in Threads : tpc[t] = "idle") =>
            /\ counters_file.state = "ok"
            /\ counters_file.data.totals.attempts = completed
            /\ events_lines = completed

\* One thread waits for the lock while the other, after a first completed
\* call, is between writing the temporary file and renaming it.
C8_Witness ==
    /\ telemetry_enabled
    /\ completed = 1
    /\ \E t1, t2 \in Threads :
          /\ tpc[t1] = "lock"
          /\ tpc[t2] = "rename"

(***************************************************************************)
(* Reading the trace: repair calls, and the first provider attempted.      *)
(***************************************************************************)
\* The generate_text calls made by _repair_json.
RepairCalls ==
    { i \in DOMAIN trace : IsCall(i) /\ trace[i].task = RepairTask(task) }

RepairEvents ==
    { i \in DOMAIN trace : IsEvent(i) /\ trace[i].operation = "repair_json" }

\* The first provider of the order that has an API key.
FirstConfigured ==
    order[CHOOSE k \in DOMAIN order :
              /\ order[k] \in configured
              /\ \A j \in DOMAIN order : j < k => order[j] \notin configured]

\* A completion text that does not extract and validate / parse.
IsBrokenText(resp) == IsOkText(resp) /\ resp.body # "valid"

(***************************************************************************)
(* C11  Every failure that complete_text, complete_json_model or           *)
(* complete_json_dict surfaces to the caller is a classified LLMError with *)
(* category timeout, rate_limit, invalid_json or server_error; no raw      *)
(* provider, parsing or validation exception escapes (also when the        *)
(* repaired text of complete_json_dict still fails to parse).              *)
(***************************************************************************)
C11_ClassifiedFailure ==
    (pc = "done" /\ result.status = "error")
    => /\ ~result.raw
       /\ result.category \in Categories

(***************************************************************************)
(* C12  Exhaustion.  When the provider loop of complete_text or            *)
(* complete_json_model has run past the last provider (each one skipped as *)
(* unconfigured or left after its attempts failed with failover-eligible   *)
(* errors), the call fails with category server_error (complete_text) or   *)
(* invalid_json (complete_json_model), and the aggregate message has an    *)
(* entry for every provider of the order: "not configured" exactly for the *)
(* providers without a key.                                                *)
(***************************************************************************)
C12_Exhaustion ==
    ( /\ op \in {"complete_text", "complete_json_model"}
      /\ pc = "done"
      /\ pidx > Len(order) )
    => /\ result.status = "error" /\ ~result.raw
       /\ result.category = IF op = "complete_json_model"
                            THEN "invalid_json" ELSE "server_error"
       /\ \A k \in DOMAIN order :
             /\ \E e \in DOMAIN result.message :
                    result.message[e].provider = order[k]
             /\ \A e \in DOMAIN result.message :
                    result.message[e].provider = order[k] =>
                      ( (result.message[e].what = "not configured")
                          <=> order[k] \notin configured )

\* complete_json_model ran out of providers: one skipped, one failed.
C12_Witness ==
    /\ op = "complete_json_model"
    /\ pc = "done"
    /\ pidx > Len(order)
    /\ Len(order) = 2
    /\ order[1] \notin configured
    /\ order[2] \in configured
    /\ attempts_made = 2
    /\ result.category = "invalid_json"

(***************************************************************************)
(* C13  As claimed: in complete_text and complete_json_model, a generate   *)
(* call that failed with a classified error of category timeout,           *)
(* rate_limit or server_error is never followed by another generate call   *)
(* to the same provider within the same orchestration call.                *)
(***************************************************************************)
C13_OtherCategory(i) ==
    /\ IsCall(i)
    /\ trace[i].task = task
    /\ trace[i].outcome = "llm_error"
    /\ trace[i].category \in {"timeout", "rate_limit", "server_error"}

C14_InvalidJsonRetry ==
    ( /\ op = "complete_json_model"
      /\ attempts_made = 1
      /\ IsBrokenText(backendAnswer)
      /\ IsBrokenText(repairAnswer) )
    => IF TotalAttempts(FirstConfigured, task) > 1
       THEN /\ pc = "attempt"
            /\ order[pidx] = FirstConfigured
            /\ attempt_index = 1
       ELSE IF "all" \in failover_on \/ "invalid_json" \in failover_on
       THEN /\ pc = "provider"
            /\ order[pidx - 1] = FirstConfigured
       ELSE /\ pc = "done"
            /\ result = Raised("invalid_json")

(***************************************************************************)
(* C15  Repair sub-call discipline.  In complete_json_model there is at    *)
(* most one repair call per main attempt; an attempt whose text fails to   *)
(* extract or validate gets one repair call, to the provider of the        *)
(* attempt, recorded as one event under the task "<task>_repair"; and when *)
(* the repair call fails, no second repair is made and the attempt ends    *)
(* with the classified error of the repair call.                           *)
(***************************************************************************)
C15_RepairDiscipline ==
    op = "complete_json_model" =>
      /\ Cardinality(RepairCalls) <= attempts_made
      /\ ( /\ telemetry_enabled
           /\ attempts_made = 1
           /\ IsBrokenText(backendAnswer) )
         => /\ Cardinality(RepairCalls) = 1
            /\ \A i \in RepairCalls : trace[i].provider = FirstConfigured
            /\ Cardinality(RepairEvents) = 1
            /\ \A i \in RepairEvents :
                   /\ trace[i].task = RepairTask(task)
                   /\ trace[i].provider = FirstConfigured
            /\ ~IsOkText(repairAnswer) =>
                   \E i \in EventIndices :
                       /\ trace[i].operation = "complete_json_model"
                       /\ trace[i].outcome = "error"
                       /\ trace[i].category =
                            ClassifyResponse(repairAnswer).category

(***************************************************************************)
(* C16  complete_json_dict.  Once the call has ended after complete_text   *)
(* returned a text that does not yield a parseable JSON object (nothing to *)
(* extract, or the extracted text does not parse), exactly one repair call *)
(* was made, to the provider that produced the text, and no main           *)
(* generation call was made after the one that produced the text.          *)
(***************************************************************************)
C16_ProducedBrokenText(i) ==
    /\ IsCall(i)
    /\ trace[i].task = task
    /\ trace[i].outcome = "ok"
    /\ trace[i].text \in {"malformed", "no_object"}

C16_DictRepairsOnce ==
    (op = "complete_json_dict" /\ pc = "done") =>
      \A i \in DOMAIN trace :
          C16_ProducedBrokenText(i) =>
            /\ Cardinality(RepairCalls) = 1
            /\ \A j \in RepairCalls : trace[j].provider = trace[i].provider
            /\ \A p \in ALLOWED_PROVIDERS : \A j \in MainCalls(p) : j <= i

(***************************************************************************)
(* The extraction specification: _extract_json_text applied to a text.     *)
(***************************************************************************)
InitExtract ==
    /\ order = <<"openai">>
    /\ configured = {}
    /\ max_retries = 0
    /\ failover_on = {"all"}
    /\ telemetry_enabled = FALSE
    /\ NoCall
    /\ StoreInit
    /\ input_text \in Texts
    /\ extraction = NoExtraction
    /\ NoTranslation
    /\ NoClientCall
    /\ NoSession
    /\ NoQuiz

CallExtractJsonText ==
    /\ extraction = NoExtraction
    /\ extraction' = ExtractJsonText(input_text)
    /\ UNCHANGED <<input_text, translation, client, session, quiz>>
    /\ UNCHANGED <<settings, call, store>>

NextExtract == CallExtractJsonText

SpecExtract == InitExtract /\ [][NextExtract]_vars

(***************************************************************************)
(* The strict-schema specification: _to_openai_strict_schema applied to a  *)
(* schema.                                                                 *)
(***************************************************************************)
InitStrict ==
    /\ order = <<"openai">>
    /\ configured = {}
    /\ max_retries = 0
    /\ failover_on = {"all"}
    /\ telemetry_enabled = FALSE
    /\ NoCall
    /\ StoreInit
    /\ input_text = <<>>
    /\ extraction = NoExtraction
    /\ schema \in Schemas
    /\ translated = JNone
    /\ written = {}
    /\ deepest = 0
    /\ NoClientCall
    /\ NoSession
    /\ NoQuiz

CallToOpenaiStrictSchema ==
    /\ translated = JNone
    /\ translated' = to_openai_strict_schema(schema)
    /\ written' = openai_strict_written(schema)
    /\ UNCHANGED <<input_text, extraction, schema, deepest, client, session, quiz>>
    /\ UNCHANGED <<settings, call, store>>

NextStrict == CallToOpenaiStrictSchema

SpecStrict == InitStrict /\ [][NextStrict]_vars

(***************************************************************************)
(* The Gemini-schema specification: _to_gemini_schema applied to a schema. *)
(***************************************************************************)
InitGemini ==
    /\ order = <<"openai">>
    /\ configured = {}
    /\ max_retries = 0
    /\ failover_on = {"all"}
    /\ telemetry_enabled = FALSE
    /\ NoCall
    /\ StoreInit
    /\ input_text = <<>>
    /\ extraction = NoExtraction
    /\ schema \in GeminiSchemas
    /\ translated = JNone
    /\ written = {}
    /\ deepest = 0
    /\ NoClientCall
    /\ NoSession
    /\ NoQuiz

CallToGeminiSchema ==
    /\ translated = JNone
    /\ translated' = to_gemini_schema(schema)
    /\ written' = gemini_written(schema)
    /\ deepest' = gemini_deepest(schema)
    /\ UNCHANGED <<input_text, extraction, schema, client, session, quiz>>
    /\ UNCHANGED <<settings, call, store>>

NextGemini == CallToGeminiSchema

SpecGemini == InitGemini /\ [][NextGemini]_vars

(***************************************************************************)
(* The clients specification: generate_text called on one provider client, *)
(* with a request the dataclass accepts, against a backend that answers    *)
(* the first request with exchange.resp and a second one with              *)
(* exchange.resp2.                                                         *)
(***************************************************************************)
InitClients ==
    /\ order = <<"openai">>
    /\ configured = {}
    /\ max_retries = 0
    /\ failover_on = {"all"}
    /\ telemetry_enabled = FALSE
    /\ NoCall
    /\ StoreInit
    /\ input_text = <<>>
    /\ extraction = NoExtraction
    /\ NoTranslation
    /\ exchange \in [client : ALLOWED_PROVIDERS, configured : BOOLEAN,
                      json_schema : BOOLEAN, resp : Responses, resp2 : Responses]
    /\ generated = NoGenerated
    /\ NoSession
    /\ NoQuiz

CallGenerateText ==
    /\ generated = NoGenerated
    /\ LET request == NewLLMCallInput(
                          {"task", "model", "system_prompt", "user_prompt",
                           "json_schema"}, exchange.json_schema)
       IN  generated' =
             IF exchange.client = "gemini"
             THEN GeminiGenerateText(exchange.configured, request,
                                     exchange.resp, exchange.resp2)
             ELSE OpenAIGenerateText(exchange.client, exchange.configured,
                                     request, exchange.resp)
    /\ UNCHANGED <<input_text, extraction, translation, exchange, session,
                   quiz>>
    /\ UNCHANGED <<settings, call, store>>

NextClients == CallGenerateText

SpecClients == InitClients /\ [][NextClients]_vars

(***************************************************************************)
(* The session specification: one session, created from the quiz, and     *)
(* submit_answer calls on it, one after the other.                         *)
(***************************************************************************)
InitSession ==
    /\ order = <<"openai">>
    /\ configured = {}
    /\ max_retries = 0
    /\ failover_on = {"all"}
    /\ telemetry_enabled = FALSE
    /\ NoCall
    /\ StoreInit
    /\ input_text = <<>>
    /\ extraction = NoExtraction
    /\ NoTranslation
    /\ NoClientCall
    /\ answers = [q \in DOMAIN QuizQuestions |-> NewSessionAnswer]
    /\ submitted = None
    /\ response = NoResponse
    /\ incorrect_accepted = [q \in DOMAIN QuizQuestions |-> 0]
    /\ spc = [t \in Submitters |-> "idle"]
    /\ sreq = [t \in Submitters |-> NoRequest]
    /\ state = NoState
    /\ sensitive_tokens = {}
    /\ given_feedback = NoText
    /\ NoQuiz

SubmitAnswer ==
    \E payload \in Payloads, grade \in Grades :
       LET done == submit_answer(answers, payload, grade)
           q == payload.question_id
       IN  /\ answers' = done.answers
           /\ submitted' = q
           /\ response' = done.response
           /\ incorrect_accepted' =
                 IF done.response.status = "accepted" /\ ~done.response.is_correct
                 THEN [incorrect_accepted EXCEPT ![q] = @ + 1]
                 ELSE incorrect_accepted
           /\ UNCHANGED <<spc, sreq, state, sensitive_tokens, given_feedback>>
           /\ UNCHANGED <<input_text, extraction, translation, client, quiz>>
           /\ UNCHANGED <<settings, call, store>>

NextSession == SubmitAnswer

SpecSession == InitSession /\ [][NextSession]_vars

(***************************************************************************)
(* The concurrent session specification: the threads of the server call   *)
(* submit_answer on one session.  get_session gives its lock back before   *)
(* it returns the record (lines 65-70), so the rest of submit_answer runs  *)
(* with no lock held and another thread may run between any two of its     *)
(* reads and writes of the answer.  A thread is at                         *)
(*   idle     outside submit_answer                                        *)
(*   load     past the checks and the grading (lines 170-306)              *)
(*   store    past the read of attempts_used in line 307                   *)
(*   finish   past the write of attempts_used in line 307                  *)
(***************************************************************************)
\* Lines 170-306: the checks of the call, the grading, and the write of the
\* selection or the short answer.  A call that is not accepted returns here.
Validate(t) ==
    /\ spc[t] = "idle"
    /\ \E payload \in ConcurrentPayloads, grade \in Grades :
         LET q == payload.question_id
             done == submit_answer(answers, payload, grade)
         IN  IF done.response.status # "accepted"
             THEN /\ answers' = done.answers
                  /\ submitted' = q
                  /\ response' = done.response
                  /\ UNCHANGED <<spc, sreq>>
             ELSE /\ answers' =
                        [answers EXCEPT
                           ![q].selected_option_ids =
                               done.answers[q].selected_option_ids,
                           ![q].short_answer = done.answers[q].short_answer]
                  /\ spc' = [spc EXCEPT ![t] = "load"]
                  /\ sreq' = [sreq EXCEPT ![t] =
                        [question_id |-> q,
                         is_correct |-> done.response.is_correct,
                         feedback |-> done.response.feedback,
                         loaded |-> 0]]
                  /\ UNCHANGED <<submitted, response>>
    /\ UNCHANGED <<incorrect_accepted, state, sensitive_tokens, given_feedback>>
    /\ UNCHANGED <<input_text, extraction, translation, client, quiz>>
    /\ UNCHANGED <<settings, call, store>>

\* Line 307, answer.attempts_used += 1: the read of the attribute.
Load(t) ==
    /\ spc[t] = "load"
    /\ sreq' = [sreq EXCEPT
                  ![t].loaded = answers[sreq[t].question_id].attempts_used]
    /\ spc' = [spc EXCEPT ![t] = "store"]
    /\ UNCHANGED <<answers, submitted, response, incorrect_accepted, state,
                   sensitive_tokens, given_feedback>>
    /\ UNCHANGED <<input_text, extraction, translation, client, quiz>>
    /\ UNCHANGED <<settings, call, store>>

\* Line 307, answer.attempts_used += 1: the write of the attribute.
Store(t) ==
    /\ spc[t] = "store"
    /\ answers' = [answers EXCEPT
                     ![sreq[t].question_id].attempts_used = sreq[t].loaded + 1]
    /\ spc' = [spc EXCEPT ![t] = "finish"]
    /\ UNCHANGED <<sreq, submitted, response, incorrect_accepted, state,
                   sensitive_tokens, given_feedback>>
    /\ UNCHANGED <<input_text, extraction, translation, client, quiz>>
    /\ UNCHANGED <<settings, call, store>>

\* Lines 308-321: is_correct, locked and feedback are written and the
\* response is built from the answer as it is now.
Finish(t) ==
    /\ spc[t] = "finish"
    /\ LET q == sreq[t].question_id
           used == answers[q].attempts_used
           locked == IF sreq[t].is_correct \/ out_of_attempts(used)
                     THEN TRUE ELSE answers[q].locked
       IN  /\ answers' = [answers EXCEPT ![q].is_correct = sreq[t].is_correct,
                                         ![q].locked = locked,
                                         ![q].feedback = sreq[t].feedback]
           /\ submitted' = q
           /\ response' = AnswerSubmissionResponse(
                              "accepted", used, attempts_remaining(used),
                              sreq[t].is_correct, locked, sreq[t].feedback)
           /\ incorrect_accepted' =
                 IF sreq[t].is_correct THEN incorrect_accepted
                 ELSE [incorrect_accepted EXCEPT ![q] = @ + 1]
    /\ spc' = [spc EXCEPT ![t] = "idle"]
    /\ sreq' = [sreq EXCEPT ![t] = NoRequest]
    /\ UNCHANGED <<state, sensitive_tokens, given_feedback>>
    /\ UNCHANGED <<input_text, extraction, translation, client, quiz>>
    /\ UNCHANGED <<settings, call, store>>

(***************************************************************************)
(* The state specification: submit_answer, get_state and reset_session on  *)
(* the store, one call after the other.  The store holds the session until *)
(* it is reset; a reset session has no answers.                            *)
(***************************************************************************)
sessions == IF DOMAIN answers = {} THEN {} ELSE {SessionId}

SubmitToSession ==
    /\ SessionId \in sessions
    /\ SubmitAnswer

GetState ==
    /\ \E session_id \in {SessionId, "unknown"} :
         state' = [result |-> get_state(sessions, session_id, answers),
                   session_id |-> session_id]
    /\ UNCHANGED <<answers, submitted, response, incorrect_accepted, spc, sreq,
                   sensitive_tokens, given_feedback>>
    /\ UNCHANGED <<input_text, extraction, translation, client, quiz>>
    /\ UNCHANGED <<settings, call, store>>

ResetSession ==
    /\ answers' = [q \in {} |-> NewSessionAnswer]
    /\ UNCHANGED <<submitted, response, incorrect_accepted, spc, sreq, state,
                   sensitive_tokens, given_feedback>>
    /\ UNCHANGED <<input_text, extraction, translation, client, quiz>>
    /\ UNCHANGED <<settings, call, store>>

NextState == SubmitToSession \/ GetState \/ ResetSession

SpecState == InitSession /\ [][NextState]_vars

(***************************************************************************)
(* The feedback specification: a question with its sensitive tokens (the   *)
(* correct option ids and texts, or the expected answers, which the        *)
(* validator of ShortTextQuestion strips), and incorrect submissions to    *)
(* it.                                                                     *)
(***************************************************************************)
InitFeedback ==
    /\ order = <<"openai">>
    /\ configured = {}
    /\ max_retries = 0
    /\ failover_on = {"all"}
    /\ telemetry_enabled = FALSE
    /\ NoCall
    /\ StoreInit
    /\ input_text = <<>>
    /\ extraction = NoExtraction
    /\ NoTranslation
    /\ NoClientCall
    /\ answers = [q \in DOMAIN QuizQuestions |-> NewSessionAnswer]
    /\ submitted = None
    /\ response = NoResponse
    /\ incorrect_accepted = [q \in DOMAIN QuizQuestions |-> 0]
    /\ spc = [t \in Submitters |-> "idle"]
    /\ sreq = [t \in Submitters |-> NoRequest]
    /\ state = NoState
    /\ sensitive_tokens \in SUBSET SensitiveStrings \ {{}}
    /\ given_feedback = NoText
    /\ NoQuiz

IncorrectFeedback ==
    /\ \E type \in QuestionTypes, supplied \in SuppliedTexts :
         /\ type = "short_text" =>
               \A token \in sensitive_tokens : cleaned(token) = token
         /\ given_feedback' = incorrect_feedback(type, supplied, sensitive_tokens)
    /\ UNCHANGED <<answers, submitted, response, incorrect_accepted, spc, sreq,
                   state, sensitive_tokens>>
    /\ UNCHANGED <<input_text, extraction, translation, client, quiz>>
    /\ UNCHANGED <<settings, call, store>>

NextFeedback == IncorrectFeedback

SpecFeedback == InitFeedback /\ [][NextFeedback]_vars

NextConcurrent ==
    \/ \E t \in Submitters : Validate(t)
    \/ \E t \in Submitters : Load(t)
    \/ \E t \in Submitters : Store(t)
    \/ \E t \in Submitters : Finish(t)

SpecConcurrent == InitSession /\ [][NextConcurrent]_vars

(***************************************************************************)
(* The quiz specification: QuizModel validated on a list of questions.     *)
(***************************************************************************)
InitQuiz ==
    /\ order = <<"openai">>
    /\ configured = {}
    /\ max_retries = 0
    /\ failover_on = {"all"}
    /\ telemetry_enabled = FALSE
    /\ NoCall
    /\ StoreInit
    /\ input_text = <<>>
    /\ extraction = NoExtraction
    /\ NoTranslation
    /\ NoClientCall
    /\ NoSession
    /\ questions \in Quizzes
    /\ validation = None

CallQuizModelValidate ==
    /\ validation = None
    /\ validation' = QuizModelValidate(questions)
    /\ UNCHANGED <<input_text, extraction, translation, client, session,
                   questions>>
    /\ UNCHANGED <<settings, call, store>>

NextQuiz == CallQuizModelValidate

SpecQuiz == InitQuiz /\ [][NextQuiz]_vars

(***************************************************************************)
(* The translators specification: either translator applied to a schema.   *)
(***************************************************************************)
NextTranslators == CallToOpenaiStrictSchema \/ CallToGeminiSchema

SpecTranslators == InitGemini /\ [][NextTranslators]_vars

(***************************************************************************)
(* C17  JSON extraction rule.  For every text, _extract_json_text returns  *)
(* the trimmed text itself if it begins with "{" and ends with "}";        *)
(* otherwise the object inside the first fenced code block that contains   *)
(* one; otherwise the text from the first "{" to the last "}" when both    *)
(* exist and the "{" comes first; otherwise it fails with category         *)
(* invalid_json.                                                           *)
(***************************************************************************)
\* The positions of the fences of a text, in order.
C17_Fences(s) ==
    LET is_fence(i) == s[i] = "F"
    IN  SelectSeq([i \in 1..Len(s) |-> i], is_fence)

\* The k-th fenced block lies between the fences 2k-1 and 2k; its content
\* without the tag and the surrounding whitespace.
C17_Block(s, k) ==
    LET fences == C17_Fences(s)
        open == fences[2 * k - 1]
        close == fences[2 * k]
        from == IF open + 1 < close /\ s[open + 1] = "J" THEN open + 2
                ELSE open + 1
    IN  strip(SubSeq(s, from, close - 1))

C17_IsObject(s) == Len(s) >= 2 /\ s[1] = "{" /\ s[Len(s)] = "}"

C17_BlocksWithObject(s) ==
    { k \in 1..(Len(C17_Fences(s)) \div 2) : C17_IsObject(C17_Block(s, k)) }

C17_Expected(s) ==
    LET t == strip(s)
        blocks == C17_BlocksWithObject(t)
        first == find(t, "{")
        last == rfind(t, "}")
    IN  IF C17_IsObject(t) THEN Extracted(t)
        ELSE IF blocks # {}
        THEN Extracted(C17_Block(t, CHOOSE k \in blocks : \A j \in blocks : k <= j))
        ELSE IF first # 0 /\ last # 0 /\ first < last
        THEN Extracted(SubSeq(t, first, last))
        ELSE ExtractionError

C17_ExtractionRule ==
    extraction # NoExtraction => extraction = C17_Expected(input_text)

(***************************************************************************)
(* C20  Strict-object completeness.  In the output of                      *)
(* _to_openai_strict_schema, every node that has type "object" and a       *)
(* properties map has additionalProperties equal to false and a required   *)
(* list that holds every key of properties and no element twice, whatever  *)
(* additionalProperties and required the input node carried.               *)
(***************************************************************************)
RECURSIVE C20_Nodes(_)
C20_Nodes(v) ==
    IF v.kind = "dict"
    THEN {v} \cup UNION { C20_Nodes(v.fields[k]) : k \in DOMAIN v.fields }
    ELSE IF v.kind = "list"
    THEN UNION { C20_Nodes(v.items[i]) : i \in DOMAIN v.items }
    ELSE {}

C20_StrictNode(n) ==
    LET required == Get(n.fields, "required")
    IN  /\ Get(n.fields, "additionalProperties") = JBool(FALSE)
        /\ required.kind = "list"
        /\ \A k \in DOMAIN Get(n.fields, "properties").fields :
               \E i \in DOMAIN required.items : required.items[i] = JStr(k)
        /\ \A i, j \in DOMAIN required.items :
               required.items[i] = required.items[j] => i = j

C20_StrictObjectCompleteness ==
    translated # JNone =>
      \A n \in C20_Nodes(translated) :
          ( /\ Get(n.fields, "type") = JStr("object")
            /\ Get(n.fields, "properties").kind = "dict" )
          => C20_StrictNode(n)

(***************************************************************************)
(* C21  Gemini-shaped output.  For every schema with definitions and       *)
(* references, self-referential definitions included, the output of        *)
(* _to_gemini_schema has no "$defs" key, no "$ref" key and no lowercase    *)
(* type value at any node, and no anyOf of a branch and a null branch is   *)
(* left in it: each is replaced by the converted branch with nullable set. *)
(***************************************************************************)
C21_LowercaseTypes == {"string", "object", "array", "integer", "null"}

\* A null branch as the output can hold it: converted (its type removed) or
\* left as it was.
C21_NullBranch(item) == item = JDict(JNoFields) \/ item = NullSchema

C21_Optional(n) ==
    LET anyOf == Get(n.fields, "anyOf")
    IN  /\ anyOf.kind = "list"
        /\ Len(anyOf.items) = 2
        /\ \E i \in DOMAIN anyOf.items : C21_NullBranch(anyOf.items[i])

C21_Shaped(n) ==
    /\ "$defs" \notin DOMAIN n.fields
    /\ "$ref" \notin DOMAIN n.fields
    /\ Get(n.fields, "type").kind = "str"
         => Get(n.fields, "type").str \notin C21_LowercaseTypes
    /\ ~C21_Optional(n)

C21_GeminiShape ==
    translated # JNone => \A n \in C20_Nodes(translated) : C21_Shaped(n)

(***************************************************************************)
(* C22  Schema translators are pure.  When _to_openai_strict_schema or     *)
(* _to_gemini_schema has returned, no object the caller holds has been     *)
(* assigned into, at any nesting level of the schema, its definitions      *)
(* included: every assignment of the translator went into an object it     *)
(* copied or built.  The schema is then the value it was, so translating   *)
(* it a second time gives an equal output.                                 *)
(***************************************************************************)
C22_Pure ==
    translated # JNone => "caller" \notin written

\* A translator has returned from a schema in which a reference carries a
\* sibling key, which it wrote into the copy of the definition.
C22_Witness ==
    /\ translated # JNone
    /\ "translator" \in written
    /\ \E n \in C20_Nodes(schema) :
           /\ ref_target(n.fields, Definitions(schema)).kind = "dict"
           /\ "description" \in DOMAIN n.fields

(***************************************************************************)
(* C23  Provider error classification.  On either provider client, with an *)
(* API key: a backend that times out makes generate_text raise timeout;    *)
(* one that answers 429, rate_limit; a status of 500 or more, or any other *)
(* status of 400 or more, server_error; an answer without choices or       *)
(* candidates, or with empty text, server_error; and generate_text returns *)
(* a result only when the answer has a status below 400 and a text that is *)
(* not empty.  (For the Gemini client, whose first answer makes it repeat  *)
(* the request, the answer meant is the one to the repeated request.)      *)
(***************************************************************************)
\* The answer the classification applies to.
C23_Answer ==
    IF /\ exchange.client = "gemini"
       /\ exchange.json_schema
       /\ exchange.resp = Response("ok", 400, "schema_rejection")
    THEN exchange.resp2
    ELSE exchange.resp

C23_Classification ==
    (generated # NoGenerated /\ exchange.configured) =>
      LET a == C23_Answer
          out == generated.out
      IN  /\ a.net = "timeout" => out = LLMError("timeout")
          /\ (a.net = "ok" /\ a.status = 429) => out = LLMError("rate_limit")
          /\ (a.net = "ok" /\ a.status >= 400 /\ a.status # 429)
               => out = LLMError("server_error")
          /\ (a.net = "ok" /\ a.status < 400 /\ a.body \in {"empty", "blank"})
               => out = LLMError("server_error")
          /\ out.kind = "ok"
               => (a.net = "ok" /\ a.status < 400 /\ a.body \in TextKinds)

(***************************************************************************)
(* C24  Gemini schema-rejection retry.  One generate_text call of the      *)
(* Gemini client posts at most two HTTP requests.  It posts a second one   *)
(* only when the request carries a schema and the first answer is a 400    *)
(* recognized as a schema rejection; the second request carries no         *)
(* response schema, and its answer is classified by the status mapping,    *)
(* with no further request.                                                *)
(***************************************************************************)
C24_SchemaRejectionRetry ==
    (generated # NoGenerated /\ exchange.client = "gemini") =>
      /\ Len(generated.sent) <= 2
      /\ Len(generated.sent) = 2 =>
           /\ exchange.json_schema
           /\ exchange.resp.net = "ok"
           /\ exchange.resp.status = 400
           /\ looks_like_gemini_schema_error(exchange.resp)
           /\ generated.sent[1]
           /\ ~generated.sent[2]
           /\ generated.out = ClassifyResponse(exchange.resp2)

\* The backend rejected the schema and answered the repeated request with a
\* completion.
C24_Witness ==
    /\ exchange.client = "gemini"
    /\ Len(generated.sent) = 2
    /\ generated.out.kind = "ok"

(***************************************************************************)
(* C25  Bounded attempts per question.  After any sequence of              *)
(* submit_answer calls on a session every question's attempts_used is at   *)
(* most 3; a question that has received three accepted incorrect           *)
(* submissions is locked with attempts_used = 3 and no attempts remaining; *)
(* and a submission for a locked question returns status "locked" and      *)
(* leaves its attempts_used as it was.                                     *)
(***************************************************************************)
C25_Bounded(q) ==
    /\ answers[q].attempts_used <= 3
    /\ incorrect_accepted[q] >= 3 =>
         /\ answers[q].locked
         /\ answers[q].attempts_used = 3
         /\ attempts_remaining(answers[q].attempts_used) = 0

C25_BoundedAttempts ==
    [][ /\ \A q \in DOMAIN answers' : C25_Bounded(q)'
        /\ \A q \in DOMAIN answers :
             (answers[q].locked /\ submitted' = q) =>
               /\ response'.status = "locked"
               /\ answers'[q].attempts_used = answers[q].attempts_used
      ]_vars

\* A question locked by three accepted incorrect submissions has been
\* submitted to once more.
C25_Witness ==
    \E q \in DOMAIN answers :
       /\ incorrect_accepted[q] = 3
       /\ submitted = q
       /\ response.status = "locked"

(***************************************************************************)
(* C26  Quiz shape.  QuizModel validation accepts a quiz exactly when it   *)
(* has 15 questions with pairwise distinct ids, of which exactly 10 are    *)
(* mcq_single, 2 mcq_multi and 3 short_text; any other count, distribution *)
(* or a duplicated id ends in a validation error.                          *)
(***************************************************************************)
C26_OfType(t) == { i \in DOMAIN questions : questions[i].type = t }

C26_WellShaped ==
    /\ Len(questions) = 15
    /\ \A i, j \in DOMAIN questions :
           questions[i].id = questions[j].id => i = j
    /\ Cardinality(C26_OfType("mcq_single")) = 10
    /\ Cardinality(C26_OfType("mcq_multi")) = 2
    /\ Cardinality(C26_OfType("short_text")) = 3

C26_QuizShape ==
    validation # None =>
      /\ validation \in {"accepted", "ValidationError"}
      /\ validation = "accepted" <=> C26_WellShaped

\* A quiz with the right counts of each type and a duplicated id has been
\* rejected.
C26_Witness ==
    /\ validation = "ValidationError"
    /\ Len(questions) = 15
    /\ Cardinality(C26_OfType("mcq_single")) = 10
    /\ Cardinality(C26_OfType("mcq_multi")) = 2
    /\ Cardinality({ questions[i].id : i \in DOMAIN questions }) = 14

(***************************************************************************)
(* C27  Unexpected exceptions are normalized.  When an attempt of          *)
(* complete_text or complete_json_model ends with an exception that is not *)
(* an LLMError (the provider call raised one, or the attempt raised before *)
(* reaching the provider), the attempt is recorded with category           *)
(* server_error, the loop goes on only if should_failover("server_error"), *)
(* and otherwise the caller receives an LLMError of category server_error, *)
(* never the raw exception.                                                *)
(***************************************************************************)
MainOperations == {"complete_text", "complete_json_model"}

\* A generate call of a main attempt that raised an unclassified exception.
C27_RaisedUnexpected(i) ==
    /\ IsCall(i)
    /\ trace[i].task = task
    /\ trace[i].outcome = "exception"

\* The telemetry event of a main attempt that ended with an unclassified
\* exception: its generate call raised it, or the attempt made no call at all.
C27_UnexpectedEvent(i) ==
    /\ IsEvent(i)
    /\ trace[i].operation \in MainOperations
    /\ trace[i].outcome = "error"
    /\ \/ i = 1
       \/ i > 1 /\ IsEvent(i - 1) /\ trace[i - 1].operation \in MainOperations
       \/ i > 1 /\ C27_RaisedUnexpected(i - 1)

C27_Normalized ==
    /\ \A i \in DOMAIN trace :
          C27_UnexpectedEvent(i) => trace[i].category = "server_error"
    /\ \A i \in DOMAIN trace :
          C27_RaisedUnexpected(i) =>
            /\ telemetry_enabled =>
                 /\ i + 1 \in DOMAIN trace
                 /\ C27_UnexpectedEvent(i + 1)
                 /\ trace[i + 1].provider = trace[i].provider
            /\ \E e \in DOMAIN errors :
                   errors[e] = ErrorEntry(trace[i].provider, "server_error")
            /\ ~("all" \in failover_on \/ "server_error" \in failover_on)
                 => /\ \A j \in DOMAIN trace : j > i => ~IsCall(j)
                    /\ pc = "done"
                    /\ result = Raised("server_error")
    /\ \A i \in DOMAIN trace :
          ( /\ C27_UnexpectedEvent(i)
            /\ ~("all" \in failover_on \/ "server_error" \in failover_on) )
          => /\ i = Len(trace)
             /\ pc = "done"
             /\ result = Raised("server_error")
    /\ (op \in MainOperations /\ pc = "done" /\ result.status = "error")
          => ~result.raw

\* A provider call of complete_text raised an unclassified exception under a
\* policy without server_error, and the caller got a server_error LLMError;
\* and an attempt of complete_json_model that raised before its call.
C27_Witness ==
    /\ op = "complete_text"
    /\ failover_on = {"timeout"}
    /\ telemetry_enabled
    /\ pc = "done"
    /\ \E i \in DOMAIN trace : C27_RaisedUnexpected(i)
    /\ result = Raised("server_error")

(***************************************************************************)
(* C28  Truncation-guard attempts.  In complete_json_model, with           *)
(* max_retries_per_provider = R (a negative R counts as 0), a provider     *)
(* gets at most R + 1 attempts with the unmodified user prompt, plus one   *)
(* extra attempt only if it is perplexity on task quiz_generation; the     *)
(* truncation guard is appended to the user prompt on exactly the attempts *)
(* of index >= R + 1; a provider the manager has left behind got all of    *)
(* them, the extra one included, before any attempt of a later provider.   *)
(***************************************************************************)
AttemptsOf(provider) ==
    { i \in DOMAIN prompts : prompts[i].provider = provider }

IsGuarded(i) == prompts[i].user_prompt # UserPrompt

C28_Extra(provider) ==
    IF provider = "perplexity" /\ task = "quiz_generation" THEN 1 ELSE 0

C29_Extra ==
    IF /\ op = "complete_json_model"
       /\ task = "quiz_generation"
       /\ \E k \in DOMAIN order : order[k] = "perplexity"
    THEN 1 ELSE 0

C29_Bounded ==
    /\ attempts_made <= Len(order) * C2_Budget + C29_Extra
    /\ Len(prompts) = attempts_made
    /\ Cardinality(RepairCalls) <= Cardinality(RepairEvents)
    /\ Cardinality(RepairEvents) <=
         IF op = "complete_json_model" THEN attempts_made
         ELSE IF op = "complete_json_dict" THEN 1 ELSE 0

\* The number of steps the call can still take is below this measure: a
\* provider's turn is worth C29_Width, an attempt one.
C29_Width == C2_Budget + 3

C29_Measure ==
    CASE pc = "idle" -> (Len(order) + 2) * C29_Width + 1
      [] pc = "provider" -> (Len(order) + 2 - pidx) * C29_Width
      [] pc = "attempt" -> (Len(order) + 2 - pidx) * C29_Width - 1 - attempt_index
      [] pc = "parse_dict" -> 1
      [] OTHER -> 0

LastCall ==
    CHOOSE i \in DOMAIN trace : IsCall(i) /\ \A j \in DOMAIN trace : j > i => ~IsCall(j)

\* The last generate call was a main attempt's, it posted its request, and
\* the backend answered it with a 4xx status other than 429.
C30_Answered4xx ==
    /\ backendAnswer.net = "ok"
    /\ backendAnswer.status \in 400..499
    /\ backendAnswer.status # 429
    /\ \E i \in DOMAIN trace : IsCall(i)
    /\ trace[LastCall].task = task
    /\ trace[LastCall].outcome = "llm_error"

NextLog ==
    \/ \E t \in Threads : RecordDisabled(t)
    \/ \E t \in Threads : RecordBegin(t)
    \/ \E t \in Threads : Acquire(t)
    \/ \E t \in Threads : AppendEvent(t)
    \/ \E t \in Threads : ReadAndBump(t)
    \/ \E t \in Threads : WriteTmp(t)
    \/ \E t \in Threads : Rename(t)
    \/ \E t \in Threads : Release(t)
    \/ Crash
    \/ \E t \in Threads : CrashInWrite(t)

SpecLog == InitTelemetry /\ [][NextLog]_vars

(***************************************************************************)
(* C31  Event log versus snapshot.  With the log and the snapshot started  *)
(* empty, totals.attempts of the persisted snapshot never exceeds the      *)
(* number of lines of the event log, and the two differ only by the events *)
(* appended whose counter write has not happened yet or was lost to a      *)
(* crash: they are equal whenever no record_attempt is in progress and no  *)
(* crash has fallen between an append and the counter write that follows.  *)
(***************************************************************************)
\* totals.attempts of the snapshot a reader finds in llm_counters.json.
PersistedAttempts == read_counters(counters_file).totals.attempts

\* A thread has appended its event and not yet replaced the counters file.
C31_InWindow(t) == tpc[t] \in {"read", "write_tmp", "rename"}

\* Lines of the log that the snapshot will never count: those of the calls
\* killed inside the window.
C31_Lost ==
    events_lines - PersistedAttempts
      - Cardinality({ t \in Threads : C31_InWindow(t) })

C31_CrashInWindow ==
    \E t \in Threads : C31_InWindow(t) /\ tpc'[t] = "idle"

C31_LogVersusSnapshot ==
    [][ /\ PersistedAttempts <= events_lines
        /\ PersistedAttempts' <= events_lines'
        /\ started = 0 => C31_Lost = 0
        /\ C31_Lost' = C31_Lost + IF C31_CrashInWindow THEN 1 ELSE 0
        /\ (C31_Lost = 0 /\ \A t \in Threads : tpc[t] = "idle")
              => events_lines = PersistedAttempts ]_vars

\* Two calls have returned and a third was killed after its append: three
\* lines, two attempts counted.
C31_Witness ==
    /\ \A t \in Threads : tpc[t] = "idle"
    /\ completed = 2
    /\ events_lines = 3
    /\ PersistedAttempts = 2
    /\ C31_Lost = 1

(***************************************************************************)
(* C32  Telemetry events use the closed category set.  Every event the     *)
(* manager records (for an attempt of complete_text or                     *)
(* complete_json_model, or for a repair sub-call) has category timeout,    *)
(* rate_limit, invalid_json, server_error or success and outcome success   *)
(* or error, and its outcome is success exactly when its category is       *)
(* success.                                                                *)
(***************************************************************************)
ErrorCategory == Categories \cup {"success"}

C32_ClosedCategories ==
    \A i \in DOMAIN trace :
        IsEvent(i) =>
          /\ trace[i].category \in ErrorCategory
          /\ trace[i].outcome \in {"success", "error"}
          /\ (trace[i].outcome = "success") <=> (trace[i].category = "success")

\* complete_json_dict: an attempt whose provider call raised an unclassified
\* exception, a later attempt that succeeded, and the event of the repair
\* sub-call.
C32_Witness ==
    /\ op = "complete_json_dict"
    /\ pc = "done"
    /\ \E i, j, k \in DOMAIN trace :
          /\ i < j /\ j < k
          /\ i > 1 /\ IsCall(i - 1) /\ trace[i - 1].outcome = "exception"
          /\ IsEvent(i) /\ trace[i].category = "server_error"
          /\ IsEvent(j) /\ trace[j].category = "success"
          /\ IsEvent(k) /\ trace[k].operation = "repair_json"

(***************************************************************************)
(* C33  Gemini translation terminates on cyclic schemas.                   *)
(* _to_gemini_schema returns a schema for every input schema, also when    *)
(* its definitions refer to themselves or to each other through $ref, and  *)
(* no call of convert has a depth beyond the depth bound plus one.         *)
(***************************************************************************)
\* A definition of the schema refers to a definition.
C33_HasCycle ==
    /\ schema.kind = "dict"
    /\ \E n \in DOMAIN Definitions(schema) :
          convert_depth(Definitions(schema)[n], 0, Definitions(schema))
            > MaxConvertDepth

C34_Fallback ==
    translated # JNone =>
      /\ translated.kind # "raised"
      /\ schema.kind # "dict" => translated = JDict("type" :> JStr("OBJECT"))

(***************************************************************************)
(* C36  Lock invariant of an answer.  In every state reached by            *)
(* submit_answer calls made one after the other, an answer is locked       *)
(* exactly when it is correct or its attempts_used is 3; and a call never  *)
(* changes a locked answer (attempts_used, is_correct, selected options,   *)
(* short answer, feedback), so a correct answer stays correct and the      *)
(* score of the session never decreases.                                   *)
(***************************************************************************)
C36_LockedExactly(q) ==
    answers[q].locked <=>
        (answers[q].is_correct \/ answers[q].attempts_used = 3)

C36_LockInvariant ==
    [][ /\ \A q \in DOMAIN answers : C36_LockedExactly(q)
        /\ \A q \in DOMAIN answers' : C36_LockedExactly(q)'
        /\ \A q \in DOMAIN answers :
             answers[q].locked => answers'[q] = answers[q]
        /\ \A q \in DOMAIN answers :
             answers[q].is_correct => answers'[q].is_correct
        /\ score(answers') >= score(answers)
      ]_vars

\* A question answered correctly before its attempts were used up has been
\* submitted to again, and another one is locked by its third attempt.
C36_Witness ==
    \E q, r \in DOMAIN answers :
       /\ answers[q].is_correct
       /\ answers[q].locked
       /\ answers[q].attempts_used < 3
       /\ submitted = q
       /\ response.status = "locked"
       /\ response.is_correct
       /\ answers[r].locked
       /\ ~answers[r].is_correct
       /\ answers[r].attempts_used = 3

(***************************************************************************)
(* C37  Rejected submissions are free.  A submit_answer call that returns  *)
(* status "invalid" (unknown question id, not exactly one option for       *)
(* mcq_single, no option for mcq_multi, blank short answer) or "locked"    *)
(* leaves every answer of the session as it was; it uses up no attempt.    *)
(***************************************************************************)
C37_InvalidFeedback(q) ==
    IF q \notin DOMAIN QuizQuestions THEN "Question not found."
    ELSE IF QuizQuestions[q].type = "mcq_single"
    THEN "Select exactly one option."
    ELSE IF QuizQuestions[q].type = "mcq_multi"
    THEN "Select one or more options."
    ELSE "Enter a short answer before checking."

C37_RejectedIsFree ==
    [][ /\ response'.status \in {"invalid", "locked"} => answers' = answers
        /\ response'.status = "invalid" =>
             /\ response'.feedback = C37_InvalidFeedback(submitted')
             /\ submitted' \in DOMAIN answers =>
                  /\ ~answers[submitted'].locked
                  /\ response'.attempts_used = answers[submitted'].attempts_used
        /\ response'.status = "locked" => answers[submitted'].locked
      ]_vars

\* A question with one attempt used has been sent an invalid submission.
C37_Witness ==
    /\ submitted \in DOMAIN answers
    /\ response.status = "invalid"
    /\ response.attempts_used = 1
    /\ answers[submitted].attempts_used = 1
    /\ ~answers[submitted].locked

(***************************************************************************)
(* C35  Concurrent submissions respect the attempt bound.  When two or     *)
(* more threads call submit_answer at the same time for the same session   *)
(* and question, attempts_used never exceeds 3, every accepted submission  *)
(* raises attempts_used by exactly one, and no submission is accepted for  *)
(* a question that is already locked.                                      *)
(***************************************************************************)
C35_Counts(t) == spc[t] = "store" /\ spc'[t] = "finish"

C35_ConcurrentBound ==
    [][ /\ \A q \in DOMAIN answers' : answers'[q].attempts_used <= 3
        /\ \A t \in Submitters :
             C35_Counts(t) =>
               LET q == sreq[t].question_id
               IN  /\ answers'[q].attempts_used = answers[q].attempts_used + 1
                   /\ ~answers[q].locked
      ]_vars

\* Only the bound on attempts_used.
C35_AttemptsAtMostThree ==
    \A q \in DOMAIN answers : answers[q].attempts_used <= 3

\* Only: an accepted submission raises attempts_used by one.
C35_RaisedByOne ==
    [][ \A t \in Submitters :
          C35_Counts(t) =>
            answers'[sreq[t].question_id].attempts_used
                = answers[sreq[t].question_id].attempts_used + 1 ]_vars

\* Only: no submission is counted for a locked question.
C35_NotWhenLocked ==
    [][ \A t \in Submitters :
          C35_Counts(t) => ~answers[sreq[t].question_id].locked ]_vars

(***************************************************************************)
(* C39  Session state view.  get_state on an existing session returns a    *)
(* state whose score is the number of questions answered correctly, whose  *)
(* total_questions is the length of the quiz and whose current_index is    *)
(* the index of the first unlocked question (the last index when all are   *)
(* locked); it fails only for an unknown or reset session id.              *)
(***************************************************************************)
C39_FirstUnlocked(i) ==
    /\ ~answers[QuestionOrder[i + 1]].locked
    /\ \A j \in 0 .. i - 1 : answers[QuestionOrder[j + 1]].locked

C39_StateView ==
    [][ state' # state =>
          IF state'.session_id \in sessions
          THEN /\ state'.result.kind = "ok"
               /\ state'.result.value.score = score(answers)
               /\ state'.result.value.total_questions = 3
               /\ LET i == state'.result.value.current_index
                  IN  \/ C39_FirstUnlocked(i)
                      \/ /\ i = 2
                         /\ \A q \in DOMAIN answers : answers[q].locked
          ELSE state'.result.kind = "key_error"
      ]_vars

\* Only: get_state of a session the store holds does not fail.
C39_ExistingSucceeds ==
    state.session_id = SessionId =>
        state.result.kind \in {"ok", "key_error"}

(***************************************************************************)
(* C38  Anti-leakage feedback.  The feedback submit_answer returns for an  *)
(* accepted incorrect submission never contains, letter case ignored, a    *)
(* correct option text, a correct option id or an expected short answer of *)
(* at least two characters, nor any of the answer-revealing phrases,       *)
(* whatever the distractor feedback or the reason of the grader was.       *)
(***************************************************************************)
C38_Given == given_feedback.fixed # "unset"

C38_NoLeak ==
    C38_Given =>
        /\ given_feedback.phrases = {}
        /\ \A token \in sensitive_tokens :
             Len(token) >= 2 => token \notin given_feedback.contains

\* As amended: the feedback is the generic message, or a text that is not
\* empty, matches no reveal pattern, and contains no sensitive token that
\* has two characters or more once the white space around it is stripped.
C38_GenericOrClean ==
    C38_Given =>
        \/ given_feedback = GENERIC_INCORRECT_FEEDBACK
        \/ /\ ~given_feedback.blank
           /\ given_feedback.phrases = {}
           /\ \A token \in sensitive_tokens :
                Len(cleaned(token)) >= 2 =>
                   cleaned(token) \notin given_feedback.contains

\* The generic message is the feedback for a question that has a word of
\* that message among its sensitive tokens.
C38_Witness ==
    /\ given_feedback = GENERIC_INCORRECT_FEEDBACK
    /\ sensitive_tokens = {"context", "paris"}

(***************************************************************************)
(* C40  Cross-level consistency of the snapshot.  Starting from an empty   *)
(* snapshot, after any sequence of recorded events, totals.attempts equals *)
(* the sum of attempts over the providers, over the models, over the       *)
(* tasks, over the categories and over the provider-task pairs, and equals *)
(* the sum of totals.attempts over the monthly scopes; the same holds for  *)
(* success and for error.                                                  *)
(***************************************************************************)
RECURSIVE C40_Sum(_, _)
C40_Sum(container, key) ==
    IF DOMAIN container = {} THEN 0
    ELSE LET k == CHOOSE x \in DOMAIN container : TRUE
             rest == [y \in DOMAIN container \ {k} |-> container[y]]
         IN  container[k][key] + C40_Sum(rest, key)

RECURSIVE C40_PairSum(_, _)
C40_PairSum(provider_task, key) ==
    IF DOMAIN provider_task = {} THEN 0
    ELSE LET p == CHOOSE x \in DOMAIN provider_task : TRUE
             rest == [y \in DOMAIN provider_task \ {p} |-> provider_task[y]]
         IN  C40_Sum(provider_task[p], key) + C40_PairSum(rest, key)

C40_MonthTotals(monthly) == [m \in DOMAIN monthly |-> monthly[m].totals]

C40_LevelsAgree(snapshot, key) ==
    /\ snapshot.totals[key] = C40_Sum(snapshot.providers, key)
    /\ snapshot.totals[key] = C40_Sum(snapshot.models, key)
    /\ snapshot.totals[key] = C40_Sum(snapshot.tasks, key)
    /\ snapshot.totals[key] = C40_Sum(snapshot.categories, key)
    /\ snapshot.totals[key] = C40_PairSum(snapshot.provider_task, key)
    /\ snapshot.totals[key] = C40_Sum(C40_MonthTotals(snapshot.monthly), key)

C40_CrossLevel ==
    LET snapshot == read_counters(counters_file)
    IN  \A key \in {"attempts", "success", "error"} :
           C40_LevelsAgree(snapshot, key)

\* Three events are counted, over two tasks, two models, two categories,
\* two provider-task pairs of one provider and two months.
C40_Witness ==
    LET snapshot == read_counters(counters_file)
    IN  /\ snapshot.totals.attempts = 3
        /\ Cardinality(DOMAIN snapshot.providers) = 1
        /\ Cardinality(DOMAIN snapshot.tasks) = 2
        /\ Cardinality(DOMAIN snapshot.models) = 2
        /\ Cardinality(DOMAIN snapshot.categories) = 2
        /\ Cardinality(DOMAIN snapshot.monthly) = 2
        /\ \A p \in DOMAIN snapshot.provider_task :
              Cardinality(DOMAIN snapshot.provider_task[p]) = 2

(***************************************************************************)
(* C18  Crash tolerance of the snapshot.  Whatever the point of            *)
(* record_attempt at which the process is killed, every step of the        *)
(* program that changes the counters file puts a completely written        *)
(* snapshot in its place (the temporary file, written to its end and       *)
(* renamed, or the empty snapshot of a new file): the counters file is     *)
(* never a partially written one.  (A step to "missing" is the operator    *)
(* removing the file.)                                                     *)
(***************************************************************************)
C18_CrashTolerance ==
    [][ /\ counters_file'.state # "partial"
        /\ counters_file' # counters_file =>
             \/ counters_file'.state = "missing"
             \/ /\ counters_file'.state = "ok"
                /\ \/ counters_file' = tmp_file
                   \/ counters_file'.data = empty_counter_snapshot ]_vars

\* The process was killed while writing the temporary file of a second
\* event: the committed snapshot still counts the first one.
C18_Witness ==
    /\ tmp_file = PartialFile
    /\ counters_file.state = "ok"
    /\ counters_file.data.totals.attempts = 1
    /\ completed = 1
    /\ \A t \in Threads : tpc[t] = "idle"

(***************************************************************************)
(* C19  Snapshot recovery.  When the counters file is missing or its       *)
(* content is corrupt at the time record_attempt reads it, the call goes   *)
(* on from an empty snapshot without raising: what it will write is the    *)
(* empty snapshot counting exactly its one event.                          *)
(***************************************************************************)
C19_SnapshotRecovery ==
    [][ \A t \in Threads :
          ( /\ tpc[t] = "read"
            /\ tpc'[t] \notin {"read", "idle"}
            /\ counters_file.state # "ok" )
          => /\ tpc'[t] = "write_tmp"
             /\ tlocal'[t] = BumpCounters(empty_counter_snapshot, tevent[t]) ]_vars

====
